---------------------------- MODULE Spec2Model ----------------------------
(***************************************************************************)
(* A model of LCODE 3D (src/lcode.py, src/lcode/plasma/gpu_functions.py):  *)
(* the plasma virtualization table, the deposition kernel, the particle    *)
(* pushers, the field solvers, the step driver and the driving loop.       *)
(*                                                                         *)
(* Real numbers are rationals <<n, d>> in lowest terms with d > 0.  They   *)
(* are exact as long as numerator and denominator stay below Precision;    *)
(* a result beyond that is rounded to a nearby rational that fits, to a    *)
(* relative precision of about 1 / Precision, the way the code's float64   *)
(* results are rounded to 53 bits.  The square root is                     *)
(* exact on the square of a rational and rounded to this precision         *)
(* otherwise, and the cosines and sines of the transforms are rounded      *)
(* where they are irrational.                                              *)
(***************************************************************************)
EXTENDS Integers, Sequences, FiniteSets, TLC

-----------------------------------------------------------------------------
(* Rational arithmetic *)

Abs(n) == IF n < 0 THEN -n ELSE n
Min(a, b) == IF a < b THEN a ELSE b
Max(a, b) == IF a > b THEN a ELSE b

\* The greatest common divisor of the pair t = <<a, b>>, a >= 0 and b >= 0 and
\* not both 0: Euclid's algorithm.
RECURSIVE GCDFrom(_)
GCDFrom(t) == IF t[2] = 0 THEN t[1] ELSE GCDFrom(<<t[2], t[1] % t[2]>>)

GCD(a, b) == GCDFrom(<<a, b>>)

Precision == 32767

\* The pair t = <<n, d>> with both parts divided (towards zero) by g > 0.
DivideBy(t, g) ==
    <<(IF t[1] < 0 THEN -1 ELSE 1) * (Abs(t[1]) \div g), t[2] \div g>>

\* The pair <<n, d>> (d > 0) divided by its greatest common divisor.
Reduce(t) == DivideBy(t, GCD(Abs(t[1]), t[2]))

\* The pair t = <<r, d>>, 0 <= r < d, with both parts divided until the
\* denominator is below Precision.
Scaled(t) == DivideBy(t, t[2] \div Precision + 1)

\* The integer part q and the fractional part f = <<r, d>> of a rational as
\* the nearest rational of denominator D; D = 0: the number is Precision or
\* more, out of range, and becomes the largest in range.
NearestWith(q, D, f) ==
    IF D = 0 THEN <<Precision - 1, 1>>
    ELSE <<q * D + (f[1] * D + f[2] \div 2) \div f[2], D>>

\* The rational a/d >= 1 (a >= d > 0) rounded to the nearest rational whose
\* denominator is the largest that keeps the numerator below Precision: the
\* integer part is kept, the fractional part is rounded.
Nearest(a, d) ==
    NearestWith(a \div d, (Precision - 1) \div (a \div d + 1), Scaled(<<a % d, d>>))

\* The rational r >= 1 as the number it was rounded for: inverted back when
\* the number was below 1 (big is false), negated when it was negative.
Oriented(neg, big, r) ==
    Reduce(<<(IF neg THEN -1 ELSE 1) * (IF big THEN r[1] ELSE r[2]),
             IF big THEN r[2] ELSE r[1]>>)

\* The rational n/d (d > 0, n # 0) rounded to a pair that fits, to a
\* relative precision of about 1 / Precision; a number below 1 is rounded
\* as its inverse is.
Rounded(n, d) ==
    Oriented(n < 0, Abs(n) >= d, Nearest(Max(Abs(n), d), Min(Abs(n), d)))

\* The pair t, computed once, rounded.
Shrink(t) == CHOOSE r \in { Rounded(x[1], x[2]) : x \in {t} } : TRUE

\* The pair r in lowest terms, rounded when it does not fit.
Round(r) ==
    IF -Precision < r[1] /\ r[1] < Precision /\ r[2] < Precision
    THEN r ELSE Shrink(r)

\* The rational n/d with d > 0 in lowest terms, rounded when it does not fit.
NormPos(n, d) == Round(Reduce(<<n, d>>))

\* The rational n/d (d # 0) with a positive denominator; n and d are
\* computed first.
Norm(n, d) == <<<<n, d>>, NormPos((IF d > 0 THEN 1 ELSE -1) * n, Abs(d))>>[2]

RInt(k) == <<k, 1>>
Zero == <<0, 1>>
One == <<1, 1>>
Half == <<1, 2>>

RAdd(a, b) == Norm(a[1] * b[2] + b[1] * a[2], a[2] * b[2])
RSub(a, b) == Norm(a[1] * b[2] - b[1] * a[2], a[2] * b[2])
RNeg(a) == <<-a[1], a[2]>>
RMul(a, b) == Norm(a[1] * b[1], a[2] * b[2])
RDiv(a, b) == Norm(a[1] * b[2], a[2] * b[1])
RSq(a) == RMul(a, a)
RLt(a, b) == a[1] * b[2] < b[1] * a[2]
RLe(a, b) == a[1] * b[2] <= b[1] * a[2]
RGt(a, b) == RLt(b, a)
RGe(a, b) == RLe(b, a)
\* math.floor
Floor(a) == a[1] \div a[2]

\* The integer square root (rounded down) of 0 <= n < Precision^2 by
\* Newton's iteration from above.
\* One step of Newton's iteration for the square root of n.
NewtonStep(n, x) == (x + n \div x) \div 2

RECURSIVE ISqrtFrom(_, _)
ISqrtFrom(n, x) ==
    IF NewtonStep(n, x) >= x THEN x ELSE ISqrtFrom(n, NewtonStep(n, x))
ISqrt(n) ==
    IF n = 0 THEN 0
    ELSE ISqrtFrom(n, IF n < 1024 THEN 32
                      ELSE IF n < 1048576 THEN 1024 ELSE Precision + 1)

\* sqrt(n/d) = sqrt(n * d * k^2) / (d * k)
RSqrtScaled(a, k) == Norm(ISqrt(a[1] * a[2] * k * k), a[2] * k)

\* math.sqrt of a >= 0, scaled by the largest k that keeps n * d * k^2 below
\* Precision^2; exact when n/d is the square of a rational.
RSqrt(a) ==
    IF a[1] = 0 THEN Zero
    ELSE RSqrtScaled(a, ISqrt((Precision * Precision - 1) \div (a[1] * a[2])))

\* Arrays are functions on 0 .. n-1, indexed as in the source; a 2-D array
\* a[i, j] is a[i][j].  An array is kept with every element evaluated.
Evaluated(a) == a @@ a
ALen(a) == Cardinality(DOMAIN a)
Concat(a, b) ==
    Evaluated([i \in 0 .. (ALen(a) + ALen(b) - 1) |->
                  IF i < ALen(a) THEN a[i] ELSE b[i - ALen(a)]])

\* e, evaluated after v: the statements of the source run in their order.
After(v, e) == <<v, e>>[2]

\* cp.zeros((n, m))
zeros(n, m) ==
    Evaluated([i \in 0 .. n - 1 |-> Evaluated([j \in 0 .. m - 1 |-> Zero])])

\* np.ones((n, m)) * v
full(n, m, v) ==
    Evaluated([i \in 0 .. n - 1 |-> Evaluated([j \in 0 .. m - 1 |-> v])])

\* The sum of the elements lo .. hi of the 1-D array a.
RECURSIVE SumRange(_, _, _)
SumRange(a, lo, hi) ==
    IF lo > hi THEN Zero
    ELSE IF lo = hi THEN a[lo]
    ELSE RAdd(SumRange(a, lo, (lo + hi) \div 2), SumRange(a, (lo + hi) \div 2 + 1, hi))

\* a.sum() of a 1-D array
Sum1(a) == SumRange(a, 0, ALen(a) - 1)

\* a.sum() of a 2-D array
ArraySum(a) == Sum1(Evaluated([i \in DOMAIN a |-> Sum1(a[i])]))

-----------------------------------------------------------------------------
(* State *)

VARIABLES
    pm_pc,        \* plasma_make: "args" before the call, "made" after, "error"
    pm_args,      \* plasma_make's arguments [steps, cell_size, coarseness, fineness]
    virt_params,  \* the virtualization table plasma_make returns
    gpu,          \* the GPUMonolith object: its attributes
    dep_pc,       \* deposition: "constructed", "ready" (ion background set), "deposited"
    dep_c,        \* the coarse plasma [x_offt, y_offt, m, q, px, py, pz] given to deposit
    dep_out,      \* the grids [ro, jx, jy, jz] deposit returned
    kern_threads, \* deposit_kernel's running threads: each one's loop position
    push_pc,      \* pushers: "args", "estimated" (predictor done), "pushed"
    push_in,      \* the arguments of the pushers: particle arrays and fields
    push_est,     \* the offsets move_estimate_wo_fields returned
    push_out,     \* the offsets and momenta move_smart returned
    main_pc,      \* main: "loop" at the head of its for loop, "in_step", "done", "raised"
    xi_i,         \* main's loop variable
    run,          \* module config's xi_steps, beam and diagnostics_each_N_steps
    state,        \* main's variable state
    step_pc,      \* step: the statement it is at, "returned" after its return
    step_in,      \* step's arguments [beam_ro, prev]
    step_loc,     \* step's local variables
    step_ret,     \* what step returned
    step_log,     \* history: the calls step has made, each with what it returned
    main_log,     \* history: the calls of step main has made
    mem,          \* history: which storage the arrays of step, main and gpu are
    fs_pc,        \* gpu_functions: the kernel launched, "idle" between launches
    fs_solver,    \* gpu_functions: what GPUMonolith.__init__ has set (N, alf, mul, ...)
    fs_args,      \* gpu_functions: the input arrays of the kernel launched
    fs_mem,       \* gpu_functions: the device arrays dct1_in, bet and dct2_in
    fs_threads,   \* gpu_functions: where each thread of the kernel is
    fs_solves,    \* gpu_functions: how many kernels have been synchronized
    init_pc,      \* init, GPUMonolith.__init__: the statement reached
    init_args,    \* init, GPUMonolith.__init__: the arguments
    init_raised,  \* init, GPUMonolith.__init__: the exception raised, "" if none
    call_pc,      \* a function called alone: "called" before it runs, "returned", "raised"
    call_args,    \* a function called alone: its name and arguments
    call_ret      \* a function called alone: what it returned

plasmaVars == <<pm_pc, pm_args, virt_params>>
depositVars == <<gpu, dep_pc, dep_c, dep_out, kern_threads>>
pushVars == <<push_pc, push_in, push_est, push_out>>
stepVars == <<main_pc, xi_i, run, state, step_pc, step_in, step_loc, step_ret, step_log, main_log, mem>>
sweepVars == <<fs_pc, fs_solver, fs_args, fs_mem, fs_threads, fs_solves>>
initVars == <<init_pc, init_args, init_raised>>
callVars == <<call_pc, call_args, call_ret>>
vars == <<pm_pc, pm_args, virt_params, gpu, dep_pc, dep_c, dep_out, kern_threads,
          push_pc, push_in, push_est, push_out,
          main_pc, xi_i, run, state, step_pc, step_in, step_loc, step_ret, step_log,
          main_log, mem,
          fs_pc, fs_solver, fs_args, fs_mem, fs_threads, fs_solves,
          init_pc, init_args, init_raised,
          call_pc, call_args, call_ret>>

\* The value of a variable that holds nothing yet.
NoTable == [ Nc |-> 0 ]

\* The variables of a part of the program that a specification leaves out.
IdlePlasma ==
    /\ pm_pc = "idle"
    /\ pm_args = [ steps |-> 0 ]
    /\ virt_params = NoTable
IdleDeposit ==
    /\ gpu = NoTable
    /\ dep_pc = "idle"
    /\ dep_c = NoTable
    /\ dep_out = NoTable
    /\ kern_threads = <<>>
IdlePush ==
    /\ push_pc = "idle"
    /\ push_in = NoTable
    /\ push_est = NoTable
    /\ push_out = NoTable
IdleSweep ==
    /\ fs_pc = "idle"
    /\ fs_solver = NoTable
    /\ fs_args = NoTable
    /\ fs_mem = NoTable
    /\ fs_threads = <<>>
    /\ fs_solves = 0
IdleInit ==
    /\ init_pc = "idle"
    /\ init_args = NoTable
    /\ init_raised = ""
IdleCall ==
    /\ call_pc = "idle"
    /\ call_args = NoTable
    /\ call_ret = NoTable
IdleStep ==
    /\ main_pc = "idle"
    /\ xi_i = 0
    /\ run = NoTable
    /\ state = NoTable
    /\ step_pc = "idle"
    /\ step_in = NoTable
    /\ step_loc = NoTable
    /\ step_ret = NoTable
    /\ step_log = <<>>
    /\ main_log = <<>>
    /\ mem = NoTable

-----------------------------------------------------------------------------
(* plasma_make: the coarse and the fine lattice and the virtualization table *)

ELECTRON_CHARGE == -1
ELECTRON_MASS == 1

make_coarse_plasma_grid(steps, step_size, coarseness) ==
    LET plasma_step == RMul(step_size, RInt(coarseness))
        half == steps \div (coarseness * 2)
        right_half == Evaluated([k \in 0 .. half - 1 |-> RMul(RInt(k), plasma_step)])
        \* -right_half[:0:-1]: invert, reverse, drop zero
        left_half == Evaluated([k \in 0 .. half - 2 |-> RNeg(right_half[half - 1 - k])])
    IN  Concat(left_half, right_half)

\* The fine lattice built for every fineness as it is for an odd one.
make_fine_plasma_grid_as_odd(steps, step_size, fineness) ==
    LET plasma_step == RDiv(step_size, RInt(fineness))
        half == (steps \div 2) * fineness
        right_half == Evaluated([k \in 0 .. half - 1 |-> RMul(RInt(k), plasma_step)])
        left_half == Evaluated([k \in 0 .. half - 2 |-> RNeg(right_half[half - 1 - k])])
    IN  Concat(left_half, right_half)

make_fine_plasma_grid(steps, step_size, fineness) ==
    LET plasma_step == RDiv(step_size, RInt(fineness))
        half == (steps \div 2) * fineness
    IN  IF fineness % 2 = 1
        THEN LET right_half == Evaluated([k \in 0 .. half - 1 |-> RMul(RInt(k), plasma_step)])
                 left_half == Evaluated([k \in 0 .. half - 2 |-> RNeg(right_half[half - 1 - k])])
             IN  Concat(left_half, right_half)
        ELSE LET right_half == Evaluated([k \in 0 .. half - 1 |->
                                   RMul(RAdd(Half, RInt(k)), plasma_step)])
                 \* -right_half[::-1]: invert, reverse
                 left_half == Evaluated([k \in 0 .. half - 1 |-> RNeg(right_half[half - 1 - k])])
             IN  Concat(left_half, right_half)

\* np.searchsorted(a, v), side 'left', on a sorted array: the number of
\* elements of a that are less than v.
searchsorted(a, v) == Cardinality({k \in DOMAIN a : RLt(a[k], v)})

\* np.clip
clip(x, lo, hi) == Min(Max(x, lo), hi)

indices_next_of(coarse_grid, fine_grid) ==
    Evaluated([pi \in DOMAIN fine_grid |->
        clip(searchsorted(coarse_grid, fine_grid[pi]), 0, ALen(coarse_grid) - 1)])

indices_prev_of(coarse_grid, fine_grid) ==
    Evaluated([pi \in DOMAIN fine_grid |->
        clip(searchsorted(coarse_grid, fine_grid[pi]) - 1, 0, ALen(coarse_grid) - 1)])

\* The boundary fix-up with no effect: the extrapolating linear weight.
influence_prev_nofix(coarse_grid, fine_grid, i_prev, i_next, coarse_step, pi) ==
    RDiv(RSub(coarse_grid[i_next[pi]], fine_grid[pi]), coarse_step)

\* influence_prev_x / influence_prev_y with the fix for boundary cases; the
\* later assignment (fine >= coarse[-1]) wins where both masks hold.
influence_prev(coarse_grid, fine_grid, i_prev, i_next, coarse_step, pi) ==
    IF RGe(fine_grid[pi], coarse_grid[ALen(coarse_grid) - 1]) THEN One
    ELSE IF RLe(fine_grid[pi], coarse_grid[0]) THEN Zero
    ELSE RDiv(RSub(coarse_grid[i_next[pi]], fine_grid[pi]), coarse_step)

\* influence_next_x / influence_next_y with the fix for boundary cases.
influence_next(coarse_grid, fine_grid, i_prev, i_next, coarse_step, pi) ==
    IF RGe(fine_grid[pi], coarse_grid[ALen(coarse_grid) - 1]) THEN Zero
    ELSE IF RLe(fine_grid[pi], coarse_grid[0]) THEN One
    ELSE RDiv(RSub(fine_grid[pi], coarse_grid[i_prev[pi]]), coarse_step)

plasma_make(steps, cell_size, coarseness, fineness) ==
    LET coarse_step == RMul(cell_size, RInt(coarseness))
        coarse_grid == make_coarse_plasma_grid(steps, cell_size, coarseness)
        fine_grid == make_fine_plasma_grid(steps, cell_size, fineness)
        Nc == ALen(coarse_grid)
        Nf == ALen(fine_grid)
        i_next == indices_next_of(coarse_grid, fine_grid)
        i_prev == indices_prev_of(coarse_grid, fine_grid)
        ip == Evaluated([pi \in 0 .. Nf - 1 |->
                 influence_prev(coarse_grid, fine_grid, i_prev, i_next, coarse_step, pi)])
        in == Evaluated([pi \in 0 .. Nf - 1 |->
                 influence_next(coarse_grid, fine_grid, i_prev, i_next, coarse_step, pi)])
        outer(u, v) == Evaluated([pi \in 0 .. Nf - 1 |->
                          Evaluated([pj \in 0 .. Nf - 1 |-> RMul(u[pi], v[pj])])])
    IN  [ Nc |-> Nc,
          x_init |-> Evaluated([i \in 0 .. Nc - 1 |->
                        Evaluated([j \in 0 .. Nc - 1 |-> coarse_grid[i]])]),
          y_init |-> Evaluated([i \in 0 .. Nc - 1 |-> coarse_grid]),
          x_offt |-> zeros(Nc, Nc),
          y_offt |-> zeros(Nc, Nc),
          px |-> zeros(Nc, Nc),
          py |-> zeros(Nc, Nc),
          pz |-> zeros(Nc, Nc),
          m |-> full(Nc, Nc, RInt(ELECTRON_MASS * coarseness * coarseness)),
          q |-> full(Nc, Nc, RInt(ELECTRON_CHARGE * coarseness * coarseness)),
          coarse_grid |-> coarse_grid,
          fine_grid |-> fine_grid,
          indices_prev |-> i_prev,
          indices_next |-> i_next,
          A_weights |-> outer(ip, ip),
          B_weights |-> outer(in, ip),
          C_weights |-> outer(ip, in),
          D_weights |-> outer(in, in) ]

-----------------------------------------------------------------------------
(* weights, deposit9, deposit_kernel, deposit *)

\* The last lines of weights(): the nine products of the axis weights.
weights_products(i, j, wx0, wy0, wxP, wyP, wxM, wyM) ==
    After(<<wx0, wy0, wxP, wyP, wxM, wyM>>,
        [ i |-> i, j |-> j,
          wMP |-> RMul(wxM, wyP), w0P |-> RMul(wx0, wyP), wPP |-> RMul(wxP, wyP),
          wM0 |-> RMul(wxM, wy0), w00 |-> RMul(wx0, wy0), wP0 |-> RMul(wxP, wy0),
          wMM |-> RMul(wxM, wyM), w0M |-> RMul(wx0, wyM), wPM |-> RMul(wxP, wyM) ])

\* weights_local with wxP = (.5 + x_loc)**2 and wyP = (.5 + y_loc)**2, not
\* halved.
weights_local_unhalved(i, j, x_loc, y_loc) ==
    After(<<x_loc, y_loc>>,
        weights_products(i, j,
            RSub(<<3, 4>>, RSq(x_loc)), RSub(<<3, 4>>, RSq(y_loc)),
            RSq(RAdd(Half, x_loc)), RSq(RAdd(Half, y_loc)),
            RDiv(RSq(RSub(Half, x_loc)), RInt(2)), RDiv(RSq(RSub(Half, y_loc)), RInt(2))))

\* wx0, wxP, wxM (and the same for y) from the offsets from the cell center.
weights_local(i, j, x_loc, y_loc) ==
    After(<<x_loc, y_loc>>,
        weights_products(i, j,
            RSub(<<3, 4>>, RSq(x_loc)), RSub(<<3, 4>>, RSq(y_loc)),
            RDiv(RSq(RAdd(Half, x_loc)), RInt(2)), RDiv(RSq(RAdd(Half, y_loc)), RInt(2)),
            RDiv(RSq(RSub(Half, x_loc)), RInt(2)), RDiv(RSq(RSub(Half, y_loc)), RInt(2))))

\* x_loc = x_h - floor(x_h) - .5: the offset from the cell center.
cell_offset(x_h) == RSub(RSub(x_h, RInt(Floor(x_h))), Half)

\* i, j and x_loc, y_loc from x_h, y_h.
weights_cell(x_h, y_h, grid_steps) ==
    After(<<x_h, y_h>>,
        weights_local(Floor(x_h) + grid_steps \div 2, Floor(y_h) + grid_steps \div 2,
                      cell_offset(x_h), cell_offset(y_h)))

\* weights(): the central cell (i, j) of the particle at (x, y) and the nine
\* quadratic-spline weights of the 3 x 3 stencil around it.
weights(x, y, grid_steps, grid_step_size) ==
    weights_cell(RAdd(RDiv(x, grid_step_size), Half),
                 RAdd(RDiv(y, grid_step_size), Half), grid_steps)

\* The nine cells of a stencil in the order deposit9 adds to them and interp9
\* reads them: the offset of the cell from (i, j) and the weight it takes.
Stencil(w) ==
    <<  <<-1,  1, w.wMP>>, << 0,  1, w.w0P>>, << 1,  1, w.wPP>>,
        <<-1,  0, w.wM0>>, << 0,  0, w.w00>>, << 1,  0, w.wP0>>,
        <<-1, -1, w.wMM>>, << 0, -1, w.w0M>>, << 1, -1, w.wPM>>  >>

\* The 3 x 3 stencil around (i, j) addresses cells of the grid only.
StencilInGrid(i, j, grid_steps) ==
    /\ 1 <= i /\ i <= grid_steps - 2
    /\ 1 <= j /\ j <= grid_steps - 2

\* A store of val to a[i, j] in the place of the atomic add.
atomic_store(a, i, j, val) == [a EXCEPT ![i][j] = val]

\* numba.cuda.atomic.add(a, (i, j), val): one indivisible read-add-write.
atomic_add(a, i, j, val) == [a EXCEPT ![i][j] = RAdd(@, val)]

\* One line of deposit9: the atomic add to the cell at the offset cell[1],
\* cell[2] of val times the weight cell[3].
deposit9_add(a, i, j, val, cell) ==
    atomic_add(a, i + cell[1], j + cell[2], RMul(val, cell[3]))

\* The atomic adds number lo to hi of deposit9, in order.
RECURSIVE deposit9_adds(_, _, _, _, _, _, _)
deposit9_adds(a, i, j, val, w, lo, hi) ==
    After(a,
        IF lo = hi
        THEN deposit9_add(a, i, j, val, Stencil(w)[lo])
        ELSE deposit9_adds(deposit9_adds(a, i, j, val, w, lo, (lo + hi) \div 2),
                           i, j, val, w, (lo + hi) \div 2 + 1, hi))

\* deposit9 without its last atomic add.
deposit9_eight(a, i, j, val, w) == deposit9_adds(a, i, j, val, w, 1, 8)

\* deposit9: the nine atomic adds.
deposit9(a, i, j, val, w) == deposit9_adds(a, i, j, val, w, 1, 9)

\* A * c[px, py] + B * c[nx, py] + C * c[px, ny] + D * c[nx, ny]
mix_at(c, A, B, C, D, px, nx, py, ny) ==
    RAdd(RAdd(RAdd(RMul(A, c[px][py]), RMul(B, c[nx][py])),
              RMul(C, c[px][ny])),
         RMul(D, c[nx][ny]))

\* The bilinear mix of the coarse array c for the virtual particle (pi, pj).
mix(c, vp, pi, pj) ==
    mix_at(c, vp.A_weights[pi][pj], vp.B_weights[pi][pj],
           vp.C_weights[pi][pj], vp.D_weights[pi][pj],
           vp.indices_prev[pi], vp.indices_next[pi],
           vp.indices_prev[pj], vp.indices_next[pj])

\* The charge the kernel deposits for a virtual particle of charge q, mass m
\* and momentum p: dro = q / (1 - p_z / gamma_m).
deposited_charge(q, p_z, gamma_m) == RDiv(q, RSub(One, RDiv(p_z, gamma_m)))

\* djx, djy, djz from dro, and the stencil the particle deposits to.
virtual_currents(q, x, y, p_x, p_y, p_z, gamma_m, dro, w) ==
    After(<<dro, w>>,
        [ q |-> q, x |-> x, y |-> y,
          dro |-> dro,
          djx |-> RMul(p_x, RDiv(dro, gamma_m)),
          djy |-> RMul(p_y, RDiv(dro, gamma_m)),
          djz |-> RMul(p_z, RDiv(dro, gamma_m)),
          w |-> w ])

\* dro from gamma_m.
virtual_charge(grid_steps, grid_step_size, x, y, q, p_x, p_y, p_z, gamma_m) ==
    After(gamma_m,
        virtual_currents(q, x, y, p_x, p_y, p_z, gamma_m,
                         deposited_charge(q, p_z, gamma_m),
                         weights(x, y, grid_steps, grid_step_size)))

\* gamma_m = sqrt(m**2 + p_x**2 + p_y**2 + p_z**2)
virtual_gamma(grid_steps, grid_step_size, x, y, m, q, p_x, p_y, p_z) ==
    After(<<x, y, m, q, p_x, p_y, p_z>>,
        virtual_charge(grid_steps, grid_step_size, x, y, q, p_x, p_y, p_z,
            RSqrt(RAdd(RAdd(RAdd(RSq(m), RSq(p_x)), RSq(p_y)), RSq(p_z)))))

\* The position, mass, charge and momentum of the virtual particle (pi, pj).
virtual_mixed(grid_steps, grid_step_size, vp, c, smallness_factor, pi, pj) ==
    virtual_gamma(grid_steps, grid_step_size,
        RAdd(vp.fine_grid[pi], mix(c.x_offt, vp, pi, pj)),
        RAdd(vp.fine_grid[pj], mix(c.y_offt, vp, pi, pj)),
        RMul(mix(c.m, vp, pi, pj), smallness_factor),
        RMul(mix(c.q, vp, pi, pj), smallness_factor),
        RMul(mix(c.px, vp, pi, pj), smallness_factor),
        RMul(mix(c.py, vp, pi, pj), smallness_factor),
        RMul(mix(c.pz, vp, pi, pj), smallness_factor))

\* The body of deposit_kernel's loop up to the call of weights: the virtual
\* particle pk, what it deposits and where.  c is the coarse plasma
\* [x_offt, y_offt, m, q, px, py, pz].
virtual_particle(grid_steps, grid_step_size, vp, c, smallness_factor, pk) ==
    virtual_mixed(grid_steps, grid_step_size, vp, c, smallness_factor,
                  pk \div ALen(vp.fine_grid), pk % ALen(vp.fine_grid))

\* The number of virtual particles: A_weights.size.
virtual_count(vp) == ALen(vp.fine_grid) * ALen(vp.fine_grid)

\* The four deposit9 calls for the virtual particle v.
deposit_virtual(out, v) ==
    After(<<out, v>>,
        [ ro |-> deposit9(out.ro, v.w.i, v.w.j, v.dro, v.w),
          jx |-> deposit9(out.jx, v.w.i, v.w.j, v.djx, v.w),
          jy |-> deposit9(out.jy, v.w.i, v.w.j, v.djy, v.w),
          jz |-> deposit9(out.jz, v.w.i, v.w.j, v.djz, v.w) ])

\* One iteration of deposit_kernel's loop.
deposit_particle(out, grid_steps, grid_step_size, vp, c, smallness_factor, pk) ==
    deposit_virtual(out, virtual_particle(grid_steps, grid_step_size, vp, c,
                                          smallness_factor, pk))

\* The iterations lo to hi of deposit_kernel's loop, in index order.
RECURSIVE deposit_particles(_, _, _, _, _, _, _, _)
deposit_particles(out, grid_steps, grid_step_size, vp, c, smallness_factor, lo, hi) ==
    After(out,
        IF lo > hi THEN out
        ELSE IF lo = hi
        THEN deposit_particle(out, grid_steps, grid_step_size, vp, c, smallness_factor, lo)
        ELSE deposit_particles(
                 deposit_particles(out, grid_steps, grid_step_size, vp, c,
                                   smallness_factor, lo, (lo + hi) \div 2),
                 grid_steps, grid_step_size, vp, c, smallness_factor,
                 (lo + hi) \div 2 + 1, hi))

\* deposit_kernel run to completion by one thread.
deposit_kernel(out, grid_steps, grid_step_size, vp, c, smallness_factor) ==
    deposit_particles(out, grid_steps, grid_step_size, vp, c, smallness_factor,
                      0, virtual_count(vp) - 1)

\* a + b of two 2-D arrays
ArrayAdd(a, b) ==
    After(<<a, b>>,
        Evaluated([i \in DOMAIN a |-> Evaluated([j \in DOMAIN a[i] |-> RAdd(a[i][j], b[i][j])])]))

\* -a
ArrayNeg(a) ==
    After(a,
        Evaluated([i \in DOMAIN a |-> Evaluated([j \in DOMAIN a[i] |-> RNeg(a[i][j])])]))

\* Four zeroed grids.
zero_grids(grid_steps) ==
    [ ro |-> zeros(grid_steps, grid_steps), jx |-> zeros(grid_steps, grid_steps),
      jy |-> zeros(grid_steps, grid_steps), jz |-> zeros(grid_steps, grid_steps) ]

\* ro += ro_initial, the last line of deposit() before it returns.
add_ro_initial(out, ro_initial) ==
    After(out,
        [ ro |-> ArrayAdd(out.ro, ro_initial),
          jx |-> out.jx, jy |-> out.jy, jz |-> out.jz ])

\* deposit(): the kernel on zeroed grids, then ro += ro_initial.
deposit(ro_initial, grid_steps, grid_step_size, c, vp, smallness_factor) ==
    add_ro_initial(deposit_kernel(zero_grids(grid_steps), grid_steps, grid_step_size,
                                  vp, c, smallness_factor),
                   ro_initial)

\* The stencil of the virtual particle v lies inside the grid.
VirtualInGrid(v, grid_steps) == StencilInGrid(v.w.i, v.w.j, grid_steps)

\* Every virtual particle's stencil lies inside the grid: none lies outside.
AllStencilsInGrid(grid_steps, grid_step_size, vp, c, smallness_factor) ==
    ~ \E pk \in 0 .. virtual_count(vp) - 1 :
          ~VirtualInGrid(virtual_particle(grid_steps, grid_step_size, vp, c,
                                          smallness_factor, pk), grid_steps)

-----------------------------------------------------------------------------
(* move_estimate_wo_fields, interp9, move_smart *)

\* The terms lo .. hi of the sequence s added to acc from left to right.
RECURSIVE AddRange(_, _, _, _)
AddRange(acc, s, lo, hi) ==
    After(acc,
        IF lo > hi THEN acc
        ELSE IF lo = hi THEN RAdd(acc, s[lo])
        ELSE AddRange(AddRange(acc, s, lo, (lo + hi) \div 2), s, (lo + hi) \div 2 + 1, hi))

\* s[1] + s[2] + ... + s[Len(s)], added from left to right.
SumLR(s) == AddRange(s[1], s, 2, Len(s))

\* sqrt(m**2 + pz**2 + px**2 + py**2)
gamma_m_of(m, px, py, pz) ==
    RSqrt(RAdd(RAdd(RAdd(RSq(m), RSq(pz)), RSq(px)), RSq(py)))

\* x = x if x <= +reflect_boundary else +2 * reflect_boundary - x
reflect_high(x, reflect_boundary) ==
    IF RLe(x, reflect_boundary) THEN x
    ELSE RSub(RMul(RInt(2), reflect_boundary), x)

\* x = x if x >= -reflect_boundary else -2 * reflect_boundary - x
reflect_low(x, reflect_boundary) ==
    IF RGe(x, RNeg(reflect_boundary)) THEN x
    ELSE RSub(RMul(RInt(-2), reflect_boundary), x)

\* The two conditional expressions of the predictor, one after the other.
reflect_position(x, reflect_boundary) ==
    reflect_low(reflect_high(x, reflect_boundary), reflect_boundary)

\* x += px / (gamma_m - pz) * xi_step_size
\* A variant: the drift over half of the step.
drift_half(x, p, speed, xi_step_size) == RAdd(x, RMul(RDiv(p, speed), RDiv(xi_step_size, RInt(2))))

drift(x, p, speed, xi_step_size) == RAdd(x, RMul(RDiv(p, speed), xi_step_size))

\* The predictor from gamma_m - pz on: the drift, the reflection and the
\* offsets <<x_offt, y_offt>>.
estimate_from_speed(xi_step_size, reflect_boundary, x_init, y_init, prev_x_offt, prev_y_offt, px, py, speed) ==
    After(speed,
        <<RSub(reflect_position(drift(RAdd(x_init, prev_x_offt), px, speed, xi_step_size),
                                reflect_boundary), x_init),
          RSub(reflect_position(drift(RAdd(y_init, prev_y_offt), py, speed, xi_step_size),
                                reflect_boundary), y_init)>>)

\* One iteration of move_estimate_wo_fields_kernel's loop: the estimated
\* offsets <<x_offt, y_offt>> of one particle.
move_estimate_wo_fields_kernel(xi_step_size, reflect_boundary, m, x_init, y_init, prev_x_offt, prev_y_offt, px, py, pz) ==
    estimate_from_speed(xi_step_size, reflect_boundary, x_init, y_init,
                        prev_x_offt, prev_y_offt, px, py,
                        RSub(gamma_m_of(m, px, py, pz), pz))

\* The 2-D array of the components f of the elements of the 2-D array a.
Component(a, f) ==
    Evaluated([i \in DOMAIN a |-> Evaluated([j \in DOMAIN a[i] |-> a[i][j][f]])])

\* The arrays x_offt and y_offt the predictor kernel has written.
estimate_arrays(est) == [ x_offt |-> Component(est, 1), y_offt |-> Component(est, 2) ]

\* move_estimate_wo_fields: the kernel over all the particles (the arrays
\* are ravelled views of the Nc x Nc arrays).
move_estimate_wo_fields(xi_step_size, reflect_boundary, m, x_init, y_init, x_prev_offt, y_prev_offt, px_prev, py_prev, pz_prev) ==
    estimate_arrays(Evaluated([i \in DOMAIN m |-> Evaluated([j \in DOMAIN m[i] |->
        move_estimate_wo_fields_kernel(
            xi_step_size, reflect_boundary, m[i][j],
            x_init[i][j], y_init[i][j],
            x_prev_offt[i][j], y_prev_offt[i][j],
            px_prev[i][j], py_prev[i][j], pz_prev[i][j])])]))

\* One term of interp9: the cell at the offset cell[1], cell[2] times the
\* weight cell[3].
interp9_term(a, i, j, cell) == RMul(a[i + cell[1]][j + cell[2]], cell[3])

\* interp9: the nine cells around (i, j) weighted, added from left to right.
interp9(a, i, j, w) ==
    SumLR(Evaluated([n \in 1 .. 9 |-> interp9_term(a, i, j, Stencil(w)[n])]))

\* The five interp9 calls of move_smart_kernel with the weights w.  Bz = 0.
fields_weighted(F, w) ==
    After(w,
        [ Ex |-> interp9(F.Ex, w.i, w.j, w),
          Ey |-> interp9(F.Ey, w.i, w.j, w),
          Ez |-> interp9(F.Ez, w.i, w.j, w),
          Bx |-> interp9(F.Bx, w.i, w.j, w),
          By |-> interp9(F.By, w.i, w.j, w),
          Bz |-> Zero ])

\* The fields move_smart_kernel interpolates at the half-step position of a
\* particle; F is the record of the six averaged field grids.
fields_at(F, x_halfstep, y_halfstep, grid_steps, grid_step_size) ==
    fields_weighted(F, weights(x_halfstep, y_halfstep, grid_steps, grid_step_size))

\* dpx, dpy, dpz from the velocity and factor_1.
lorentz_increment(f, vx, vy, vz, factor_1) ==
    After(<<vx, vy, vz, factor_1>>,
        <<RMul(factor_1, RSub(RAdd(f.Ex, RMul(vy, f.Bz)), RMul(vz, f.By))),
          RMul(factor_1, RAdd(RSub(f.Ey, RMul(vx, f.Bz)), RMul(vz, f.Bx))),
          RMul(factor_1, RSub(RAdd(f.Ez, RMul(vx, f.By)), RMul(vy, f.Bx)))>>)

\* vx, vy, vz and factor_1 from gamma_m.
increment_from_gamma(q, xi_step_size, px, py, pz, f, gamma_m) ==
    After(gamma_m,
        lorentz_increment(f, RDiv(px, gamma_m), RDiv(py, gamma_m), RDiv(pz, gamma_m),
                          RDiv(RMul(q, xi_step_size), RSub(One, RDiv(pz, gamma_m)))))

\* One of the two iterations of the momentum update: <<dpx, dpy, dpz>> from
\* the momentum (px, py, pz) and the fields f at the particle.
momentum_increment(m, q, xi_step_size, px, py, pz, f) ==
    increment_from_gamma(q, xi_step_size, px, py, pz, f, gamma_m_of(m, px, py, pz))

\* opx + dpx / 2, opy + dpy / 2, opz + dpz / 2
half_kick(op, dp) ==
    <<RAdd(op[1], RDiv(dp[1], RInt(2))), RAdd(op[2], RDiv(dp[2], RInt(2))),
      RAdd(op[3], RDiv(dp[3], RInt(2)))>>

\* The new offsets and the momenta opx + dpx, opy + dpy, opz + dpz.
smart_result(xi_step_size, prev_x_offt, prev_y_offt, op, dp, p, speed) ==
    After(speed,
        [ x_offt |-> drift(prev_x_offt, p[1], speed, xi_step_size),
          y_offt |-> drift(prev_y_offt, p[2], speed, xi_step_size),
          px |-> RAdd(op[1], dp[1]),
          py |-> RAdd(op[2], dp[2]),
          pz |-> RAdd(op[3], dp[3]) ])

\* The third gamma_m, of the momentum p after the second iteration.
smart_speed(xi_step_size, m, prev_x_offt, prev_y_offt, op, dp, p) ==
    After(p,
        smart_result(xi_step_size, prev_x_offt, prev_y_offt, op, dp, p,
                     RSub(gamma_m_of(m, p[1], p[2], p[3]), p[3])))

\* A variant that advances the position with the momentum it returns.
smart_kicked_whole(xi_step_size, m, prev_x_offt, prev_y_offt, op, dp) ==
    After(dp,
        smart_speed(xi_step_size, m, prev_x_offt, prev_y_offt, op, dp,
                    <<RAdd(op[1], dp[1]), RAdd(op[2], dp[2]), RAdd(op[3], dp[3])>>))

\* The end of an iteration of the momentum update, from its dpx, dpy, dpz.
smart_kicked(xi_step_size, m, prev_x_offt, prev_y_offt, op, dp) ==
    After(dp,
        smart_speed(xi_step_size, m, prev_x_offt, prev_y_offt, op, dp, half_kick(op, dp)))

\* The second iteration of the momentum update, from the momentum p of the
\* first.
smart_second(xi_step_size, m, q, prev_x_offt, prev_y_offt, op, f, p) ==
    After(p,
        smart_kicked(xi_step_size, m, prev_x_offt, prev_y_offt, op,
                     momentum_increment(m, q, xi_step_size, p[1], p[2], p[3], f)))

\* The two iterations of the momentum update with the fields f at the
\* particle, and the position update.
smart_first(xi_step_size, m, q, prev_x_offt, prev_y_offt, op, f) ==
    After(f,
        smart_second(xi_step_size, m, q, prev_x_offt, prev_y_offt, op, f,
            half_kick(op, momentum_increment(m, q, xi_step_size, op[1], op[2], op[3], f))))

\* move_smart_kernel for one particle up to the reflection: the new offsets
\* and momenta before the boundary is looked at.
move_smart_unreflected(xi_step_size, grid_step_size, grid_steps, m, q, x_init, y_init, prev_x_offt, prev_y_offt, estimated_x_offt, estimated_y_offt, prev_px, prev_py, prev_pz, F) ==
    smart_first(xi_step_size, m, q, prev_x_offt, prev_y_offt,
        <<prev_px, prev_py, prev_pz>>,
        fields_at(F,
            RAdd(x_init, RDiv(RAdd(prev_x_offt, estimated_x_offt), RInt(2))),
            RAdd(y_init, RDiv(RAdd(prev_y_offt, estimated_y_offt), RInt(2))),
            grid_steps, grid_step_size))

\* The body of one of the reflection ifs: the position x it has assigned,
\* x_offt = x - x_init and px = -px, as <<x, x_offt, px>>.
reflected_to(init, x, p) == <<x, RSub(x, init), RNeg(p)>>

\* if x > +reflect_boundary: ...
reflect_above(init, x, offt, p, reflect_boundary) ==
    IF RGt(x, reflect_boundary)
    THEN reflected_to(init, RSub(RMul(RInt(2), reflect_boundary), x), p)
    ELSE <<x, offt, p>>

\* if x < -reflect_boundary: ... on the state s = <<x, x_offt, px>> the first
\* if has left.
reflect_below(init, s, reflect_boundary) ==
    IF RLt(s[1], RNeg(reflect_boundary))
    THEN reflected_to(init, RSub(RMul(RInt(-2), reflect_boundary), s[1]), s[3])
    ELSE s

\* The offset and the momentum of <<x, x_offt, px>>.
offset_and_momentum(s) == <<s[2], s[3]>>

\* The two ifs of move_smart_kernel for one axis, one after the other:
\* <<offset, momentum>> from the unreflected offset and momentum.
reflect_axis(init, offt, p, reflect_boundary) ==
    offset_and_momentum(
        reflect_below(init,
            reflect_above(init, RAdd(init, offt), offt, p, reflect_boundary),
            reflect_boundary))

\* What the kernel stores: the reflected x and y and the momenta.
smart_stored(rx, ry, pz) ==
    After(<<rx, ry>>,
        [ x_offt |-> rx[1], y_offt |-> ry[1], px |-> rx[2], py |-> ry[2], pz |-> pz ])

\* The four reflection ifs on the unreflected result u.
smart_reflected(u, x_init, y_init, reflect_boundary) ==
    After(u,
        smart_stored(reflect_axis(x_init, u.x_offt, u.px, reflect_boundary),
                     reflect_axis(y_init, u.y_offt, u.py, reflect_boundary), u.pz))

\* One iteration of move_smart_kernel's loop: the new offsets and momenta of
\* one particle.
move_smart_kernel(xi_step_size, reflect_boundary, grid_step_size, grid_steps, m, q, x_init, y_init, prev_x_offt, prev_y_offt, estimated_x_offt, estimated_y_offt, prev_px, prev_py, prev_pz, F) ==
    smart_reflected(
        move_smart_unreflected(xi_step_size, grid_step_size, grid_steps, m, q,
                               x_init, y_init, prev_x_offt, prev_y_offt,
                               estimated_x_offt, estimated_y_offt,
                               prev_px, prev_py, prev_pz, F),
        x_init, y_init, reflect_boundary)

\* The five arrays the kernel has written.
smart_arrays(new) ==
    [ x_offt |-> Component(new, "x_offt"), y_offt |-> Component(new, "y_offt"),
      px |-> Component(new, "px"), py |-> Component(new, "py"),
      pz |-> Component(new, "pz") ]

\* move_smart: the kernel over all the particles.
move_smart(xi_step_size, reflect_boundary, grid_step_size, grid_steps, m, q, x_init, y_init, x_prev_offt, y_prev_offt, estimated_x_offt, estimated_y_offt, px_prev, py_prev, pz_prev, F) ==
    smart_arrays(Evaluated([i \in DOMAIN m |-> Evaluated([j \in DOMAIN m[i] |->
        move_smart_kernel(
            xi_step_size, reflect_boundary, grid_step_size, grid_steps,
            m[i][j], q[i][j], x_init[i][j], y_init[i][j],
            x_prev_offt[i][j], y_prev_offt[i][j],
            estimated_x_offt[i][j], estimated_y_offt[i][j],
            px_prev[i][j], py_prev[i][j], pz_prev[i][j], F)])]))

MinSteps == 0
MaxSteps == 8
MaxCoarseness == 2
MaxFineness == 3
CellSizes == {One, Half}

InitPlasma ==
    /\ IdleSweep
    /\ IdleInit
    /\ IdleCall
    /\ IdleStep
    /\ IdleDeposit
    /\ IdlePush
    /\ pm_pc = "args"
    /\ pm_args \in [ steps : MinSteps .. MaxSteps,
                     cell_size : CellSizes,
                     coarseness : 1 .. MaxCoarseness,
                     fineness : 1 .. MaxFineness ]
    /\ virt_params = NoTable

\* plasma_make returns the table.
PlasmaMake ==
    /\ pm_pc = "args"
    /\ pm_args.steps \div (pm_args.coarseness * 2) >= 1
    /\ pm_pc' = "made"
    /\ virt_params' = plasma_make(pm_args.steps, pm_args.cell_size,
                                  pm_args.coarseness, pm_args.fineness)
    /\ UNCHANGED <<pm_args, depositVars, pushVars, stepVars, sweepVars, initVars, callVars>>

\* With an empty coarse lattice coarse_grid[i_next_in_x] or coarse_grid[0]
\* raises IndexError.
PlasmaMakeRaises ==
    /\ pm_pc = "args"
    /\ pm_args.steps \div (pm_args.coarseness * 2) < 1
    /\ pm_pc' = "error"
    /\ UNCHANGED <<pm_args, virt_params, depositVars, pushVars, stepVars, sweepVars, initVars, callVars>>

NextPlasma == PlasmaMake \/ PlasmaMakeRaises

SpecPlasma == InitPlasma /\ [][NextPlasma]_vars

\* The four bilinear weights of the fine point (pi, pj) added up.
WeightSum(t, pi, pj) ==
    RAdd(RAdd(t.A_weights[pi][pj], t.B_weights[pi][pj]),
         RAdd(t.C_weights[pi][pj], t.D_weights[pi][pj]))

\* The weight the fine row pi takes along the first axis from the coarse
\* index k: A and C multiply coarse values at indices_prev[pi], B and D those at
\* indices_next[pi] (mix() in the deposition and pusher kernels).
AxisWeight(t, pi, k) ==
    RAdd(IF t.indices_prev[pi] = k
         THEN RAdd(t.A_weights[pi][0], t.C_weights[pi][0]) ELSE Zero,
         IF t.indices_next[pi] = k
         THEN RAdd(t.B_weights[pi][0], t.D_weights[pi][0]) ELSE Zero)

AtOrBelowFirst(t, pi) == RLe(t.fine_grid[pi], t.coarse_grid[0])
AtOrAboveLast(t, pi) == RGe(t.fine_grid[pi], t.coarse_grid[t.Nc - 1])

\* C2: in the table plasma_make builds on a coarse lattice of at least two
\* points, the weights A + B + C + D of every fine point add up to exactly 1,
\* boundary points (at or beyond the coarse extent) included.
C2_WeightsSumToOne ==
    (pm_pc = "made" /\ virt_params.Nc >= 2) =>
        \A pi \in DOMAIN virt_params.fine_grid :
            \A pj \in DOMAIN virt_params.fine_grid :
                WeightSum(virt_params, pi, pj) = One

\* A table with a fine point strictly beyond the last coarse point, one
\* strictly before the first and one strictly between two coarse points,
\* whose corner, edge and interior weights all add up to 1.
C2_Witness ==
    /\ pm_pc = "made"
    /\ virt_params.Nc >= 2
    /\ \E pi, pj, pk \in DOMAIN virt_params.fine_grid :
          /\ RGt(virt_params.fine_grid[pi], virt_params.coarse_grid[virt_params.Nc - 1])
          /\ RLt(virt_params.fine_grid[pj], virt_params.coarse_grid[0])
          /\ ~AtOrBelowFirst(virt_params, pk) /\ ~AtOrAboveLast(virt_params, pk)
          /\ virt_params.A_weights[pk][pk] # Zero
          /\ virt_params.D_weights[pk][pk] # Zero
          /\ WeightSum(virt_params, pi, pj) = One
          /\ WeightSum(virt_params, pi, pk) = One
          /\ WeightSum(virt_params, pk, pk) = One

\* C3: every fine point at or outside the coarse extent takes its whole weight
\* along an axis from the nearest edge particle: coarse index 0 on the low side
\* and the last coarse index on the high side, a fine point that coincides with
\* the first or the last coarse point included.
C3_EdgeWeightFromEdgeParticle ==
    (pm_pc = "made" /\ virt_params.Nc >= 2) =>
        \A pi \in DOMAIN virt_params.fine_grid :
            /\ AtOrBelowFirst(virt_params, pi) =>
                  AxisWeight(virt_params, pi, 0) = One
            /\ AtOrAboveLast(virt_params, pi) =>
                  AxisWeight(virt_params, pi, virt_params.Nc - 1) = One

-----------------------------------------------------------------------------
(* Sines and cosines of rational multiples of pi *)

\* np.pi, rounded
Pi == <<355, 113>>

\* sin(x) for 0 <= x <= pi / 4: x * (1 - x^2/6 * (1 - x^2/20 * (1 - x^2/42)))
sin_series(x) ==
    RMul(x, RSub(One, RMul(RDiv(RSq(x), RInt(6)),
                 RSub(One, RMul(RDiv(RSq(x), RInt(20)),
                      RSub(One, RDiv(RSq(x), RInt(42))))))))

\* cos(y) for 0 <= y <= pi / 4: 1 - y^2/2 * (1 - y^2/12 * (1 - y^2/30))
cos_series(y) ==
    RSub(One, RMul(RDiv(RSq(y), RInt(2)),
              RSub(One, RMul(RDiv(RSq(y), RInt(12)),
                   RSub(One, RDiv(RSq(y), RInt(30)))))))

\* sin(pi * r / b) for 0 <= r / b <= 1 / 2: exact where it is rational.
sin_quadrant(r, b) ==
    IF r = 0 THEN Zero
    ELSE IF 2 * r = b THEN One
    ELSE IF 6 * r = b THEN Half
    ELSE IF 4 * r <= b THEN sin_series(RMul(Pi, Norm(r, b)))
    ELSE cos_series(RMul(Pi, Norm(b - 2 * r, 2 * b)))

\* sin(pi * r / b) for 0 <= r / b <= 1: sin(pi - x) = sin(x)
sin_half_turn(r, b) == sin_quadrant(IF 2 * r > b THEN b - r ELSE r, b)

\* np.sin(pi * a / b) for integers a >= 0 and b > 0: sin(x + pi) = -sin(x)
SinPi(a, b) ==
    IF a % (2 * b) > b
    THEN RNeg(sin_half_turn((a % (2 * b)) - b, b))
    ELSE sin_half_turn(a % (2 * b), b)

\* np.cos(pi * a / b) = sin(pi * (a / b + 1 / 2))
CosPi(a, b) == SinPi(2 * a + b, 2 * b)

-----------------------------------------------------------------------------
(* Array operations of the field solvers *)

\* a[1:-1, 1:-1]
inner(a) ==
    After(a,
        Evaluated([i \in 0 .. ALen(a) - 3 |->
            Evaluated([j \in 0 .. ALen(a) - 3 |-> a[i + 1][j + 1]])]))

\* cp.pad(a, 1, 'constant', constant_values=1)
pad_ones(a) ==
    After(a,
        Evaluated([i \in 0 .. ALen(a) + 1 |->
            Evaluated([j \in 0 .. ALen(a) + 1 |->
                IF i = 0 \/ j = 0 \/ i = ALen(a) + 1 \/ j = ALen(a) + 1
                THEN One ELSE a[i - 1][j - 1]])]))

\* cp.pad(a, 1, 'constant', constant_values=0)
pad(a) ==
    After(a,
        Evaluated([i \in 0 .. ALen(a) + 1 |->
            Evaluated([j \in 0 .. ALen(a) + 1 |->
                IF i = 0 \/ j = 0 \/ i = ALen(a) + 1 \/ j = ALen(a) + 1
                THEN Zero ELSE a[i - 1][j - 1]])]))

\* a.T
transpose(a) ==
    After(a,
        Evaluated([i \in DOMAIN a |-> Evaluated([j \in DOMAIN a |-> a[j][i]])]))

\* a - b, a * b (elementwise), a * c and a / c with a scalar c
ArraySub(a, b) ==
    After(<<a, b>>,
        Evaluated([i \in DOMAIN a |-> Evaluated([j \in DOMAIN a[i] |-> RSub(a[i][j], b[i][j])])]))
ArrayMul(a, b) ==
    After(<<a, b>>,
        Evaluated([i \in DOMAIN a |-> Evaluated([j \in DOMAIN a[i] |-> RMul(a[i][j], b[i][j])])]))
ArrayTimes(a, c) ==
    After(<<a, c>>,
        Evaluated([i \in DOMAIN a |-> Evaluated([j \in DOMAIN a[i] |-> RMul(a[i][j], c)])]))
ArrayOver(a, c) ==
    After(<<a, c>>,
        Evaluated([i \in DOMAIN a |-> Evaluated([j \in DOMAIN a[i] |-> RDiv(a[i][j], c)])]))

\* A 1-D transform with the table t along axis 0, then along axis 1:
\* out[k, l] = sum over m, n of t[k, m] * t[l, n] * a[m, n].
along_axis_0(a, t) ==
    After(<<a, t>>,
        Evaluated([k \in DOMAIN a |-> Evaluated([n \in DOMAIN a |->
            Sum1(Evaluated([m \in DOMAIN a |-> RMul(t[k][m], a[m][n])]))])]))
along_axis_1(a, t) ==
    After(<<a, t>>,
        Evaluated([k \in DOMAIN a |-> Evaluated([l \in DOMAIN a |->
            Sum1(Evaluated([n \in DOMAIN a |-> RMul(t[l][n], a[k][n])]))])]))
transform2d(a, t) == along_axis_1(along_axis_0(a, t), t)

\* The DST of type 1 of n points, not normalised:
\* y[k] = 2 * sum over m of x[m] * sin(pi * (k + 1) * (m + 1) / (n + 1)).
dst1_table(n) ==
    Evaluated([k \in 0 .. n - 1 |-> Evaluated([m \in 0 .. n - 1 |->
        RMul(RInt(2), SinPi((k + 1) * (m + 1), n + 1))])])

\* The transforms are of at most MaxPoints points, grid_steps - 2.
MaxPoints == 7

\* The tables of the sines, one for each number of points.
dst1_tables == Evaluated([n \in 1 .. MaxPoints |-> dst1_table(n)])

\* dst2d(a): what -rfft2(p)[1:N+1, 1:N+1].real is for the antisymmetrically
\* padded p, the 2-D DST of type 1.
dst2d(a) == transform2d(a, dst1_tables[ALen(a)])

\* The DCT of type 1 of n points, not normalised: y[k] = x[0] +
\* (-1)^k * x[n-1] + 2 * sum over 0 < m < n-1 of x[m] * cos(pi * k * m / (n-1)).
dct1_table(n) ==
    Evaluated([k \in 0 .. n - 1 |-> Evaluated([m \in 0 .. n - 1 |->
        IF m = 0 THEN One
        ELSE IF m = n - 1 THEN (IF k % 2 = 0 THEN One ELSE RNeg(One))
        ELSE RMul(RInt(2), CosPi(k * m, n - 1))])])

\* The tables of the cosines, one for each number of points above one.
dct1_tables == Evaluated([n \in 2 .. MaxPoints |-> dct1_table(n)])

\* scipy.fftpack.dctn(a, type=1), and idctn(a, type=1), which scipy.fftpack
\* computes as the same transform, not normalised.
dctn(a) == transform2d(a, dct1_tables[ALen(a)])

-----------------------------------------------------------------------------
(* The field solvers *)

\* calculate_RHS_Ez: -(djx_dx_ + djy_dy_) / (grid_step_size * 2), without the
\* perimeter cells.
calculate_RHS_Ez(grid_step_size, jx, jy) ==
    After(<<jx, jy>>,
        Evaluated([i \in 0 .. ALen(jx) - 3 |-> Evaluated([j \in 0 .. ALen(jx) - 3 |->
            RDiv(RNeg(RAdd(RSub(jx[i + 2][j + 1], jx[i][j + 1]),
                           RSub(jy[i + 1][j + 2], jy[i + 1][j]))),
                 RMul(grid_step_size, RInt(2)))])]))

\* np.sin(k * np.pi / (2 * (N - 1))) for k = 1 .. N-1, for the solvers of
\* N = 3 .. MaxPoints + 2 points.
lamb_sines ==
    Evaluated([N \in 3 .. MaxPoints + 2 |->
        Evaluated([k \in 1 .. N - 1 |-> SinPi(k, 2 * (N - 1))])])

\* lamb = 4 / h**2 * np.sin(k * np.pi / (2 * (N - 1)))**2 for k = 1 .. N-1
lamb(N, h) ==
    Evaluated([k \in 0 .. N - 2 |->
        RMul(RDiv(RInt(4), RSq(h)), RSq(lamb_sines[N][k + 1]))])

\* mul[i, j] = 1 / (2 * (N - 1))**2 / (lamb[i] + lamb[j])
dirichlet_mul(N, lam) ==
    After(lam,
        Evaluated([i \in 0 .. N - 3 |-> Evaluated([j \in 0 .. N - 3 |->
            RDiv(RDiv(One, RInt((2 * (N - 1)) * (2 * (N - 1)))),
                 RAdd(lam[i], lam[j]))])]))

\* DirichletSolver.__init__
DirichletSolver(N, h) == [ N |-> N, h |-> h, mul |-> dirichlet_mul(N, lamb(N, h)) ]

\* DirichletSolver.solve: dst2d, times mul, dst2d, a perimeter of zeros.
dirichlet_solve(solver, rhs) ==
    After(rhs, pad(dst2d(ArrayMul(dst2d(rhs), solver.mul))))

\* calculate_Ez
calculate_Ez(dirichlet_solver, grid_step_size, jx, jy) ==
    dirichlet_solve(dirichlet_solver, calculate_RHS_Ez(grid_step_size, jx, jy))

\* dx_dy: dx = (arr[2:, 1:-1] - arr[:-2, 1:-1]) / h2
d_dx(arr, h2) ==
    After(<<arr, h2>>,
        Evaluated([i \in 0 .. ALen(arr) - 3 |-> Evaluated([j \in 0 .. ALen(arr) - 3 |->
            RDiv(RSub(arr[i + 2][j + 1], arr[i][j + 1]), h2)])]))

\* dx_dy: dy = (arr[1:-1, 2:] - arr[1:-1, :-2]) / h2
d_dy(arr, h2) ==
    After(<<arr, h2>>,
        Evaluated([i \in 0 .. ALen(arr) - 3 |-> Evaluated([j \in 0 .. ALen(arr) - 3 |->
            RDiv(RSub(arr[i + 1][j + 2], arr[i + 1][j]), h2)])]))

\* djx_dxi = (jx_prev - jx)[1:-1, 1:-1] / xi_step_size
d_dxi(j_prev, j, xi_step_size) == ArrayOver(inner(ArraySub(j_prev, j)), xi_step_size)

\* -((a - b) - avg[1:-1, 1:-1] * subtraction_trick)
rhs_minus(a, b, avg, subtraction_trick) ==
    ArrayNeg(ArraySub(ArraySub(a, b), ArrayTimes(inner(avg), subtraction_trick)))

\* +((a - b) + avg[1:-1, 1:-1] * subtraction_trick)
rhs_plus(a, b, avg, subtraction_trick) ==
    ArrayAdd(ArraySub(a, b), ArrayTimes(inner(avg), subtraction_trick))

\* The four right-hand sides from the derivatives.
rhs_of(dro_dx, dro_dy, djz_dx, djz_dy, djx_dxi, djy_dxi, F, subtraction_trick) ==
    After(<<dro_dx, dro_dy, djz_dx, djz_dy, djx_dxi, djy_dxi>>,
        [ Ex |-> rhs_minus(dro_dx, djx_dxi, F.Ex, subtraction_trick),
          Ey |-> rhs_minus(dro_dy, djy_dxi, F.Ey, subtraction_trick),
          Bx |-> rhs_plus(djz_dy, djy_dxi, F.Bx, subtraction_trick),
          By |-> rhs_minus(djz_dx, djx_dxi, F.By, subtraction_trick) ])

\* The derivatives of ro + beam_ro and of jz + beam_ro.
rhs_sources(h2, xi_step_size, subtraction_trick, F, ro_beam, jz_beam, jx, jy, jx_prev, jy_prev) ==
    After(<<ro_beam, jz_beam>>,
        rhs_of(d_dx(ro_beam, h2), d_dy(ro_beam, h2),
               d_dx(jz_beam, h2), d_dy(jz_beam, h2),
               d_dxi(jx_prev, jx, xi_step_size), d_dxi(jy_prev, jy, xi_step_size),
               F, subtraction_trick))

\* calculate_RHS_Ex_Ey_Bx_By; F holds Ex_avg, Ey_avg, Bx_avg, By_avg.
calculate_RHS_Ex_Ey_Bx_By(grid_step_size, xi_step_size, subtraction_trick, F, beam_ro, ro, jx, jy, jz, jx_prev, jy_prev) ==
    rhs_sources(RMul(grid_step_size, RInt(2)), xi_step_size, subtraction_trick, F,
                ArrayAdd(ro, beam_ro), ArrayAdd(jz, beam_ro), jx, jy, jx_prev, jy_prev)

\* mul[i, j] = 1 / (lamb[i] + lamb[j] + subtraction_trick), then
\* mul[i, j] /= (2 * (N - 1))**2 / (lamb[i] + lamb[j])
mixed_mul(N, lam, subtraction_trick) ==
    After(lam,
        Evaluated([i \in 0 .. N - 3 |-> Evaluated([j \in 0 .. N - 3 |->
            RDiv(RDiv(One, RAdd(RAdd(lam[i], lam[j]), subtraction_trick)),
                 RDiv(RInt((2 * (N - 1)) * (2 * (N - 1))), RAdd(lam[i], lam[j])))])]))

\* MixedSolver.__init__
MixedSolver(N, h, subtraction_trick) ==
    [ N |-> N, h |-> h, mul |-> mixed_mul(N, lamb(N, h), subtraction_trick) ]

\* MixedSolver.solve: dctn, times mul, idctn, a perimeter of zeros.
mixed_solve(solver, rhs) ==
    After(rhs, pad(dctn(ArrayMul(dctn(rhs), solver.mul))))

\* The four solves of calculate_Ex_Ey_Bx_By.
solve_four(mixed_solver, rhs) ==
    After(rhs,
        [ Ex |-> transpose(mixed_solve(mixed_solver, transpose(rhs.Ex))),
          Ey |-> mixed_solve(mixed_solver, rhs.Ey),
          Bx |-> mixed_solve(mixed_solver, rhs.Bx),
          By |-> transpose(mixed_solve(mixed_solver, transpose(rhs.By))) ])

\* calculate_Ex_Ey_Bx_By
calculate_Ex_Ey_Bx_By(grid_step_size, xi_step_size, subtraction_trick, mixed_solver, F, beam_ro, ro, jx, jy, jz, jx_prev, jy_prev) ==
    solve_four(mixed_solver,
        calculate_RHS_Ex_Ey_Bx_By(grid_step_size, xi_step_size, subtraction_trick,
                                  F, beam_ro, ro, jx, jy, jz, jx_prev, jy_prev))

-----------------------------------------------------------------------------
(* GPUMonolith: construction, load, initial_deposition, deposit *)

\* The configurations the specifications draw: module config's attributes.
\* All of them pass the assertions of GPUMonolith.__init__.
Config(grid_steps, grid_step_size, xi_step_size, subtraction_trick, reflect_padding_steps, plasma_padding_steps, coarseness, fineness) ==
    [ grid_steps |-> grid_steps,
      grid_step_size |-> grid_step_size,
      xi_step_size |-> xi_step_size,
      field_solver_subtraction_trick |-> subtraction_trick,
      reflect_padding_steps |-> reflect_padding_steps,
      plasma_padding_steps |-> plasma_padding_steps,
      plasma_coarseness |-> coarseness,
      plasma_fineness |-> fineness ]

\* The assertions of GPUMonolith.__init__ on the configuration.
ConfigAccepted(config) ==
    /\ config.reflect_padding_steps > config.plasma_coarseness + 1
    /\ config.grid_steps % 2 = 1

\* GPUMonolith.__init__ followed by load(m, q): pl is what plasma_make
\* returned.
GPUMonolith(config, pl) ==
    [ Nc |-> pl.Nc,
      grid_steps |-> config.grid_steps,
      xi_step_size |-> config.xi_step_size,
      grid_step_size |-> config.grid_step_size,
      subtraction_trick |-> RInt(config.field_solver_subtraction_trick),
      reflect_boundary |->
          RMul(config.grid_step_size,
               RSub(<<config.grid_steps, 2>>, RInt(config.reflect_padding_steps))),
      virtplasma_smallness_factor |->
          RDiv(One, RInt((config.plasma_coarseness * config.plasma_fineness)
                         * (config.plasma_coarseness * config.plasma_fineness))),
      x_init |-> pl.x_init,
      y_init |-> pl.y_init,
      m |-> pl.m,
      q |-> pl.q,
      virt_params |-> pl,
      mixed_solver |-> MixedSolver(config.grid_steps, config.grid_step_size,
                                   RInt(config.field_solver_subtraction_trick)),
      dirichlet_solver |-> DirichletSolver(config.grid_steps, config.grid_step_size),
      ro_initial |-> zeros(config.grid_steps, config.grid_steps) ]

\* The coarse plasma deposit is given.
CoarsePlasma(x_offt, y_offt, m, q, px, py, pz) ==
    [ x_offt |-> x_offt, y_offt |-> y_offt, m |-> m, q |-> q,
      px |-> px, py |-> py, pz |-> pz ]

\* self._ro_initial = +ro_electrons_initial, the sign not changed.
initial_deposition_unnegated(g, pl) ==
    deposit(zeros(g.grid_steps, g.grid_steps), g.grid_steps,
            g.grid_step_size,
            CoarsePlasma(pl.x_offt, pl.y_offt, pl.m, pl.q,
                         pl.px, pl.py, pl.pz),
            pl, g.virtplasma_smallness_factor).ro

\* initial_deposition's result for self._ro_initial.
initial_deposition(g, pl) ==
    ArrayNeg(deposit(zeros(g.grid_steps, g.grid_steps), g.grid_steps,
                     g.grid_step_size,
                     CoarsePlasma(pl.x_offt, pl.y_offt, pl.m, pl.q,
                                  pl.px, pl.py, pl.pz),
                     pl, g.virtplasma_smallness_factor).ro)

DepositConfigs ==
    { Config(7, One, Half, 0, 3, 2, 1, 1),
      Config(7, One, Half, 0, 3, 2, 1, 2),
      Config(9, One, Half, 1, 3, 2, 1, 1),
      Config(9, Half, Half, 1, 4, 2, 2, 1) }

\* Offsets, in units of the grid step, and momenta, in units of the particle
\* mass, that perturbed particles are given; m^2 + p^2 is a perfect square.
OffsetValues == { Zero, <<1, 4>>, <<-1, 2>> }
MomentumValues ==
    { <<Zero, Zero, Zero>>, <<<<3, 4>>, Zero, Zero>>, <<Zero, Zero, <<3, 4>>>>,
      <<Zero, <<-4, 3>>, Zero>>, <<One, One, One>>,
      << <<-1, 1>>, <<-1, 1>>, <<-1, 1>> >> }

\* The unperturbed plasma with the particle (ki, kj) given the offset
\* (dx, dy) * grid_step_size and the momentum p * m.
Perturbed(g, ki, kj, dx, dy, p) ==
    LET pl == g.virt_params
        mass == g.m[ki][kj]
    IN  CoarsePlasma(
            [pl.x_offt EXCEPT ![ki][kj] = RMul(dx, g.grid_step_size)],
            [pl.y_offt EXCEPT ![ki][kj] = RMul(dy, g.grid_step_size)],
            g.m, g.q,
            [pl.px EXCEPT ![ki][kj] = RMul(p[1], mass)],
            [pl.py EXCEPT ![ki][kj] = RMul(p[2], mass)],
            [pl.pz EXCEPT ![ki][kj] = RMul(p[3], mass)])

InitDeposit ==
    /\ IdleSweep
    /\ IdleInit
    /\ IdleCall
    /\ IdleStep
    /\ IdlePlasma
    /\ IdlePush
    /\ \E config \in DepositConfigs :
          /\ ConfigAccepted(config)
          /\ gpu = GPUMonolith(config,
                     plasma_make(config.grid_steps - config.plasma_padding_steps * 2,
                                 config.grid_step_size,
                                 config.plasma_coarseness, config.plasma_fineness))
    /\ dep_pc = "constructed"
    /\ dep_c = NoTable
    /\ dep_out = NoTable
    /\ kern_threads = <<>>

\* The plasma init gives to load and to initial_deposition: what plasma_make
\* returned.
initial_plasma(g) ==
    CoarsePlasma(g.virt_params.x_offt, g.virt_params.y_offt, g.m, g.q,
                 g.virt_params.px, g.virt_params.py, g.virt_params.pz)

\* gpu.initial_deposition(...) of init, every atomic add inside the grids.
InitialDeposition ==
    /\ dep_pc = "constructed"
    /\ AllStencilsInGrid(gpu.grid_steps, gpu.grid_step_size, gpu.virt_params,
                         initial_plasma(gpu), gpu.virtplasma_smallness_factor)
    /\ gpu' = [gpu EXCEPT !.ro_initial = initial_deposition(gpu, gpu.virt_params)]
    /\ dep_pc' = "ready"
    /\ UNCHANGED <<dep_c, dep_out, kern_threads, plasmaVars, pushVars, stepVars, sweepVars, initVars, callVars>>

\* deposit(...) of a plasma with one perturbed particle.
Deposit ==
    /\ dep_pc = "ready"
    /\ \E ki, kj \in 0 .. gpu.Nc - 1, dx, dy \in OffsetValues, p \in MomentumValues :
          LET c == Perturbed(gpu, ki, kj, dx, dy, p)
          IN  /\ AllStencilsInGrid(gpu.grid_steps, gpu.grid_step_size,
                                   gpu.virt_params, c,
                                   gpu.virtplasma_smallness_factor)
              /\ dep_c' = c
              /\ dep_out' = deposit(gpu.ro_initial, gpu.grid_steps,
                                    gpu.grid_step_size, c, gpu.virt_params,
                                    gpu.virtplasma_smallness_factor)
    /\ dep_pc' = "deposited"
    /\ UNCHANGED <<gpu, kern_threads, plasmaVars, pushVars, stepVars, sweepVars, initVars, callVars>>

NextDeposit == InitialDeposition \/ Deposit

SpecDeposit == InitDeposit /\ [][NextDeposit]_vars

\* The sum over the virtual particles of the plasma c of what
\* virtual_particle gives as field ("q" or "dro").
VirtualSum(g, c, field) ==
    Sum1(Evaluated([pk \in 0 .. virtual_count(g.virt_params) - 1 |->
            virtual_particle(g.grid_steps, g.grid_step_size, g.virt_params, c,
                             g.virtplasma_smallness_factor, pk)[field]]))

\* Some virtual particle of the deposited plasma has p_z # 0.
SomePz(c) == \E ki, kj \in DOMAIN c.pz : c.pz[ki][kj] # Zero

\* What deposit added to the ion background, summed over the grid.
DepositedTotal == RSub(ArraySum(dep_out.ro), ArraySum(gpu.ro_initial))

\* C4 (as stated): after deposit, for any ensemble, the sum of rho minus the
\* sum of ro_initial equals the sum of the virtual particles' charges q.
C4_TotalIsSumOfCharges ==
    dep_pc = "deposited" => DepositedTotal = VirtualSum(gpu, dep_c, "q")

\* C4 (amended): after deposit of an ensemble whose stencils lie inside the
\* grid, the sum of rho minus the sum of ro_initial equals the sum over the
\* virtual particles of dro = q / (1 - p_z / gamma_m); it is the sum of the
\* charges q when every p_z is zero, dro being q then.
C4_TotalIsSumOfDeposited ==
    dep_pc = "deposited" =>
        /\ DepositedTotal = VirtualSum(gpu, dep_c, "dro")
        /\ ~SomePz(dep_c) => DepositedTotal = VirtualSum(gpu, dep_c, "q")

\* A deposit of nine virtual particles, one of them displaced with p_z # 0,
\* on a non-zero ion background.
C4_Witness ==
    /\ dep_pc = "deposited"
    /\ SomePz(dep_c)
    /\ virtual_count(gpu.virt_params) > 1
    /\ ArraySum(gpu.ro_initial) # Zero
    /\ \E ki, kj \in DOMAIN dep_c.x_offt : dep_c.x_offt[ki][kj] # Zero
    /\ DepositedTotal = VirtualSum(gpu, dep_c, "dro")
    /\ DepositedTotal # VirtualSum(gpu, dep_c, "q")

-----------------------------------------------------------------------------
(* The pushers: move_estimate_wo_fields, then move_smart, as step calls them *)

PushConfigs ==
    { Config(7, One, Half, 0, 3, 2, 1, 1),
      Config(9, One, Half, 0, 3, 2, 1, 1) }

\* Offsets in units of the grid step and momenta in units of the particle
\* mass; m^2 + p^2 is a perfect square.  p / (gamma_m - pz) is 3/5, 1, 3, 4
\* and 14 for the momenta with a transverse component.
PushOffsets == { Zero, <<1, 4>>, <<-1, 4>> }
PushMomenta ==
    { <<Zero, Zero, Zero>>, <<<<3, 4>>, Zero, Zero>>, <<Zero, <<-3, 4>>, Zero>>,
      <<One, One, One>>, <<<<3, 2>>, Zero, RInt(3)>>, <<RInt(4), Zero, RInt(8)>>,
      <<Zero, RInt(-4), RInt(8)>>, <<RInt(14), Zero, RInt(98)>> }

\* The momenta of a particle faster than the grid is wide: gamma_m = 99 m,
\* and in zero field every quantity of the push is a rational that fits.  In
\* a field gamma_m is irrational and 1 - pz / gamma_m keeps two digits fewer
\* than gamma_m, more than the rounded rationals can lose: such a particle
\* is pushed in zero field only.
FastMomenta == { <<RInt(14), Zero, RInt(98)>> }

\* The averaged fields the full push is given: none, or a uniform Ex.
uniform_fields(grid_steps, Ex) ==
    [ Ex |-> full(grid_steps, grid_steps, Ex),
      Ey |-> zeros(grid_steps, grid_steps), Ez |-> zeros(grid_steps, grid_steps),
      Bx |-> zeros(grid_steps, grid_steps), By |-> zeros(grid_steps, grid_steps),
      Bz |-> zeros(grid_steps, grid_steps) ]
PushFields == { Zero, <<1, 4>> }

\* The GPUMonolith init(config) returns: constructed, loaded, and with the
\* ion background of gpu.initial_deposition(...).
initialized(config) ==
    LET g == GPUMonolith(config,
                 plasma_make(config.grid_steps - config.plasma_padding_steps * 2,
                             config.grid_step_size,
                             config.plasma_coarseness, config.plasma_fineness))
    IN  [g EXCEPT !.ro_initial = initial_deposition(g, g.virt_params)]

InitPush ==
    /\ IdleSweep
    /\ IdleInit
    /\ IdleCall
    /\ IdleStep
    /\ IdlePlasma
    /\ dep_pc = "ready" /\ dep_c = NoTable /\ dep_out = NoTable
    /\ kern_threads = <<>>
    /\ \E config \in PushConfigs : gpu = initialized(config)
    /\ \E ki, kj \in 0 .. gpu.Nc - 1, dx, dy \in PushOffsets,
          p \in PushMomenta, Ex \in PushFields :
          /\ ki <= kj
          /\ Ex = Zero \/ p \notin FastMomenta
          /\ push_in = [ c |-> Perturbed(gpu, ki, kj, dx, dy, p),
                         F |-> uniform_fields(gpu.grid_steps, Ex) ]
    /\ push_pc = "args"
    /\ push_est = NoTable
    /\ push_out = NoTable

\* move_estimate_wo_fields(...) on the previous offsets and momenta.
MoveEstimate ==
    /\ push_pc = "args"
    /\ push_est' = move_estimate_wo_fields(
                       gpu.xi_step_size, gpu.reflect_boundary, gpu.m,
                       gpu.x_init, gpu.y_init, push_in.c.x_offt, push_in.c.y_offt,
                       push_in.c.px, push_in.c.py, push_in.c.pz)
    /\ push_pc' = "estimated"
    /\ UNCHANGED <<push_in, push_out, plasmaVars, depositVars, stepVars, sweepVars, initVars, callVars>>

\* The half-step position of every particle has its stencil inside the grid:
\* none has it outside.
HalfstepsInGrid(g, c, est) ==
    ~ \E i, j \in 0 .. g.Nc - 1 :
          LET w == weights(
                  RAdd(g.x_init[i][j], RDiv(RAdd(c.x_offt[i][j], est.x_offt[i][j]), RInt(2))),
                  RAdd(g.y_init[i][j], RDiv(RAdd(c.y_offt[i][j], est.y_offt[i][j]), RInt(2))),
                  g.grid_steps, g.grid_step_size)
          IN  ~StencilInGrid(w.i, w.j, g.grid_steps)

\* move_smart(...) on the previous offsets and momenta and the estimate.
MoveSmart ==
    /\ push_pc = "estimated"
    /\ HalfstepsInGrid(gpu, push_in.c, push_est)
    /\ push_out' = move_smart(
                       gpu.xi_step_size, gpu.reflect_boundary,
                       gpu.grid_step_size, gpu.grid_steps, gpu.m, gpu.q,
                       gpu.x_init, gpu.y_init, push_in.c.x_offt, push_in.c.y_offt,
                       push_est.x_offt, push_est.y_offt,
                       push_in.c.px, push_in.c.py, push_in.c.pz, push_in.F)
    /\ push_pc' = "pushed"
    /\ UNCHANGED <<push_in, push_est, plasmaVars, depositVars, stepVars, sweepVars, initVars, callVars>>

\* interp9 reads cells that are not in the grid: what move_smart returns is
\* not defined.
MoveSmartOutOfGrid ==
    /\ push_pc = "estimated"
    /\ ~HalfstepsInGrid(gpu, push_in.c, push_est)
    /\ push_pc' = "undefined"
    /\ UNCHANGED <<push_in, push_est, push_out, plasmaVars, depositVars, stepVars, sweepVars, initVars, callVars>>

NextPush == MoveEstimate \/ MoveSmart \/ MoveSmartOutOfGrid

SpecPush == InitPush /\ [][NextPush]_vars

\* What move_smart_kernel holds for the particle (i, j) before its ifs.
Unreflected(i, j) ==
    move_smart_unreflected(
        gpu.xi_step_size, gpu.grid_step_size, gpu.grid_steps,
        gpu.m[i][j], gpu.q[i][j], gpu.x_init[i][j], gpu.y_init[i][j],
        push_in.c.x_offt[i][j], push_in.c.y_offt[i][j],
        push_est.x_offt[i][j], push_est.y_offt[i][j],
        push_in.c.px[i][j], push_in.c.py[i][j], push_in.c.pz[i][j], push_in.F)

\* -b <= x <= b, and -b < x < b
Within(x, b) == RLe(RNeg(b), x) /\ RLe(x, b)
StrictlyWithin(x, b) == RLt(RNeg(b), x) /\ RLt(x, b)

\* C5: in the full push every particle whose unreflected new position lies
\* outside [-reflect_boundary, reflect_boundary] on an axis is returned
\* strictly inside that interval with the momentum on that axis negated,
\* whatever the size of the overshoot.
C5_ReflectedInsideAndFlipped ==
    push_pc = "pushed" =>
        \A i, j \in 0 .. gpu.Nc - 1 :
            LET u == Unreflected(i, j)
                b == gpu.reflect_boundary
            IN  /\ ~Within(RAdd(gpu.x_init[i][j], u.x_offt), b) =>
                      /\ StrictlyWithin(RAdd(gpu.x_init[i][j], push_out.x_offt[i][j]), b)
                      /\ push_out.px[i][j] = RNeg(u.px)
                /\ ~Within(RAdd(gpu.y_init[i][j], u.y_offt), b) =>
                      /\ StrictlyWithin(RAdd(gpu.y_init[i][j], push_out.y_offt[i][j]), b)
                      /\ push_out.py[i][j] = RNeg(u.py)

-----------------------------------------------------------------------------
(* deposit_kernel as the threads of a launch run it *)

\* The numbers of threads, blockDim.x * gridDim.x, the kernel is launched with.
LaunchThreads == { 1, 2 }

\* The arrays deposit_kernel adds to, in the order of its deposit9 calls, and
\* what of the virtual particle each one takes.
out_arrays == << "ro", "jx", "jy", "jz" >>
out_values == << "dro", "djx", "djy", "djz" >>

\* stride = numba.cuda.blockDim.x * numba.cuda.gridDim.x
stride == ALen(kern_threads)

\* A thread at the head of its loop for pk: nothing of the iteration done.
at_loop(pk) == [ at |-> "loop", pk |-> pk, n |-> 0, v |-> NoTable ]

\* A thread that has made n of the 36 atomic adds of the virtual particle v.
at_add(pk, n, v) == [ at |-> "add", pk |-> pk, n |-> n, v |-> v ]

\* The thread after its atomic add number n + 1 for pk: at the next add, or
\* at the head of the loop for pk + stride.
after_add(th, by) ==
    IF th.n + 1 = 9 * ALen(out_arrays)
    THEN at_loop(th.pk + by)
    ELSE at_add(th.pk, th.n + 1, th.v)

\* The next atomic add of a thread that has made th.n of them: line
\* th.n % 9 + 1 of the deposit9 call number th.n \div 9 + 1.
next_array(th) == out_arrays[(th.n \div 9) + 1]
next_value(th) == th.v[out_values[(th.n \div 9) + 1]]
next_cell(th) == Stencil(th.v.w)[(th.n % 9) + 1]

\* The plasmas the kernel is launched on: the particle (ki, kj), its offsets
\* in grid steps and its momentum in units of its mass.
KernelPlasmas ==
    { <<1, 1, Zero, Zero, <<Zero, Zero, Zero>>>>,
      <<0, 1, <<1, 4>>, <<-1, 2>>, <<One, One, One>>>> }

\* Nine virtual particles, one on each cell of a 3 x 3 patch.
KernelConfigs == { Config(9, One, Half, 0, 3, 2, 1, 1) }

InitKernel ==
    /\ IdleSweep
    /\ IdleInit
    /\ IdleCall
    /\ IdleStep
    /\ IdlePlasma
    /\ IdlePush
    /\ \E config \in KernelConfigs :
          gpu = GPUMonolith(config,
                    plasma_make(config.grid_steps - config.plasma_padding_steps * 2,
                                config.grid_step_size,
                                config.plasma_coarseness, config.plasma_fineness))
    /\ dep_pc = "constructed"
    /\ dep_c = NoTable
    /\ dep_out = NoTable
    /\ kern_threads = <<>>

\* deposit(): the four grids zeroed, deposit_kernel[cfg](...) launched.  Thread
\* number index starts its loop at pk = index.
KernelLaunch ==
    /\ dep_pc = "ready"
    /\ \E in \in KernelPlasmas, threads \in LaunchThreads :
          /\ dep_c' = Perturbed(gpu, in[1], in[2], in[3], in[4], in[5])
          /\ AllStencilsInGrid(gpu.grid_steps, gpu.grid_step_size, gpu.virt_params,
                               dep_c', gpu.virtplasma_smallness_factor)
          /\ kern_threads' = [index \in 0 .. threads - 1 |-> at_loop(index)]
    /\ dep_out' = zero_grids(gpu.grid_steps)
    /\ dep_pc' = "running"
    /\ UNCHANGED <<gpu, plasmaVars, pushVars, stepVars, sweepVars, initVars, callVars>>

\* A thread enters an iteration of its loop: the lines of the body up to the
\* call of weights, which read the kernel's arguments only.
KernelIterate(t) ==
    /\ dep_pc = "running"
    /\ kern_threads[t].at = "loop"
    /\ kern_threads[t].pk < virtual_count(gpu.virt_params)
    /\ kern_threads' = [kern_threads EXCEPT ![t] =
           at_add(@.pk, 0,
                  virtual_particle(gpu.grid_steps, gpu.grid_step_size,
                                   gpu.virt_params, dep_c,
                                   gpu.virtplasma_smallness_factor, @.pk))]
    /\ UNCHANGED <<gpu, dep_pc, dep_c, dep_out, plasmaVars, pushVars, stepVars, sweepVars, initVars, callVars>>

\* A thread makes its next numba.cuda.atomic.add.
KernelAtomicAdd(t) ==
    /\ dep_pc = "running"
    /\ kern_threads[t].at = "add"
    /\ dep_out' = [dep_out EXCEPT ![next_array(kern_threads[t])] =
           deposit9_add(@, kern_threads[t].v.w.i, kern_threads[t].v.w.j,
                        next_value(kern_threads[t]), next_cell(kern_threads[t]))]
    /\ kern_threads' = [kern_threads EXCEPT ![t] = after_add(@, stride)]
    /\ UNCHANGED <<gpu, dep_pc, dep_c, plasmaVars, pushVars, stepVars, sweepVars, initVars, callVars>>

\* A thread leaves its loop: range(index, A_weights.size, stride) is used up.
KernelExit(t) ==
    /\ dep_pc = "running"
    /\ kern_threads[t].at = "loop"
    /\ kern_threads[t].pk >= virtual_count(gpu.virt_params)
    /\ kern_threads' = [kern_threads EXCEPT ![t].at = "done"]
    /\ UNCHANGED <<gpu, dep_pc, dep_c, dep_out, plasmaVars, pushVars, stepVars, sweepVars, initVars, callVars>>

\* The kernel has ended: ro += ro_initial, synchronize, return.
KernelReturn ==
    /\ dep_pc = "running"
    /\ \A t \in DOMAIN kern_threads : kern_threads[t].at = "done"
    /\ dep_out' = add_ro_initial(dep_out, gpu.ro_initial)
    /\ dep_pc' = "deposited"
    /\ UNCHANGED <<gpu, dep_c, kern_threads, plasmaVars, pushVars, stepVars, sweepVars, initVars, callVars>>

NextKernel ==
    \/ InitialDeposition
    \/ KernelLaunch
    \/ \E t \in DOMAIN kern_threads : KernelIterate(t)
    \/ \E t \in DOMAIN kern_threads : KernelAtomicAdd(t)
    \/ \E t \in DOMAIN kern_threads : KernelExit(t)
    \/ KernelReturn

SpecKernel == InitKernel /\ [][NextKernel]_vars

\* The virtual particle pk of the plasma the kernel was launched on.
Launched(pk) ==
    virtual_particle(gpu.grid_steps, gpu.grid_step_size, gpu.virt_params, dep_c,
                     gpu.virtplasma_smallness_factor, pk)

\* The stencils of the virtual particles v1 and v2 have a cell in common.
StencilsOverlap(v1, v2) ==
    /\ Abs(v1.w.i - v2.w.i) <= 2
    /\ Abs(v1.w.j - v2.w.j) <= 2

\* The thread that has the virtual particle pk has made all its adds.
Completed(pk) == pk < kern_threads[pk % stride].pk

\* No thread is inside an iteration of its loop.
BetweenIterations == \A t \in DOMAIN kern_threads : kern_threads[t].at # "add"

\* The grids out after the deposit, in the order of the particles, of the
\* virtual particles lo .. hi whose adds have all been made.
RECURSIVE DepositCompleted(_, _, _)
DepositCompleted(out, lo, hi) ==
    After(out,
        IF lo > hi THEN out
        ELSE DepositCompleted(
                 IF Completed(lo) THEN deposit_virtual(out, Launched(lo)) ELSE out,
                 lo + 1, hi))

\* The grids after the step are the grids before it with the contribution
\* val added to the cell (i, j) of the array arr and nothing else changed.
OneAddMade(arr, i, j, val) ==
    dep_out' = [dep_out EXCEPT ![arr][i][j] = RAdd(@, val)]

\* What a step of a running kernel does to the grids: a thread inside an
\* iteration adds its next contribution to the cell it is addressed to; a
\* thread between iterations leaves the grids alone.
StepAddsOnce ==
    \A t \in DOMAIN kern_threads :
        (dep_pc = "running" /\ dep_pc' = "running"
            /\ kern_threads'[t] # kern_threads[t]) =>
           IF kern_threads[t].at = "add"
           THEN OneAddMade(next_array(kern_threads[t]),
                           kern_threads[t].v.w.i + next_cell(kern_threads[t])[1],
                           kern_threads[t].v.w.j + next_cell(kern_threads[t])[2],
                           RMul(next_value(kern_threads[t]),
                                next_cell(kern_threads[t])[3]))
           ELSE dep_out' = dep_out

\* Whenever no thread is inside an iteration the grids hold the deposit of
\* the particles whose iterations are over, and the grids deposit returns
\* are the grids the kernel gives when one thread makes all the adds in the
\* order of the particles.
GridsAreTheSum ==
    /\ (dep_pc = "running" /\ BetweenIterations) =>
           dep_out = DepositCompleted(zero_grids(gpu.grid_steps), 0,
                                      virtual_count(gpu.virt_params) - 1)
    /\ dep_pc = "deposited" =>
           dep_out = deposit(gpu.ro_initial, gpu.grid_steps, gpu.grid_step_size,
                             dep_c, gpu.virt_params, gpu.virtplasma_smallness_factor)

\* C10: whatever the number of threads and the order in which they make
\* their atomic adds, every add puts its contribution on the cell it is
\* addressed to, on top of what the cell holds, so that none is lost and
\* none applied twice; and the grids deposit returns hold in every cell
\* the sum of all contributions addressed to it, the same grids for every
\* interleaving.
C10_GridsSameForEveryInterleaving == []GridsAreTheSum /\ [][StepAddsOnce]_vars

\* A launch of two threads has ended; particles of different threads have
\* added to the same cells, and the currents are not zero.
C10_Witness ==
    /\ dep_pc = "deposited"
    /\ stride = 2
    /\ \E pk1, pk2 \in 0 .. virtual_count(gpu.virt_params) - 1 :
          /\ pk1 % stride # pk2 % stride
          /\ StencilsOverlap(Launched(pk1), Launched(pk2))
          /\ Launched(pk1).djz # Zero
          /\ Launched(pk2).dro # Zero
    /\ dep_out.jz # zeros(gpu.grid_steps, gpu.grid_steps)
    /\ dep_out = deposit(gpu.ro_initial, gpu.grid_steps, gpu.grid_step_size,
                         dep_c, gpu.virt_params, gpu.virtplasma_smallness_factor)

-----------------------------------------------------------------------------
(* GPUMonolith.step *)

\* The arrays the GPUMonolith object holds, and the arrays of a state.
SolverArrays ==
    << "_x_init", "_y_init", "_m", "_q", "_ro_initial",
       "mixed_solver._mul", "dirichlet_solver._mul",
       "virt_params.A_weights", "virt_params.B_weights", "virt_params.C_weights",
       "virt_params.D_weights", "virt_params.fine_grid",
       "virt_params.indices_prev", "virt_params.indices_next" >>
StateArrays ==
    << "x_offt", "y_offt", "px", "py", "pz", "Ex", "Ey", "Ez", "Bx", "By", "Bz",
       "ro", "jx", "jy", "jz" >>

\* The names step binds arrays to.
LocalArrays ==
    StateArrays \o << "Ex_avg", "Ey_avg", "Ez_avg", "Bx_avg", "By_avg" >>

\* The place of a name in a sequence of names, and the values of a function.
place(names, n) == CHOOSE k \in 1 .. Len(names) : names[k] = n
Range(f) == { f[n] : n \in DOMAIN f }

\* New arrays, one for each name of the sequence, from the address base on.
new_arrays(names, base) == [n \in Range(names) |-> base + place(names, n)]

\* The storage after init: the arrays of the object (cp.array, cp.zeros and
\* the GPUArrays of plasma_make) and those of the state init returns
\* (cp.asarray of plasma_make's arrays and cp.zeros), all of them different.
constructed ==
    [ solver |-> new_arrays(SolverArrays, 0),
      state |-> new_arrays(StateArrays, Len(SolverArrays)),
      prev |-> [n \in {} |-> 0],
      loc |-> [n \in {} |-> 0],
      ret |-> [n \in {} |-> 0],
      written |-> {},
      fresh |-> Len(SolverArrays) + Len(StateArrays) ]

\* step is called with the state the caller holds as prev.
called_with(m) ==
    [m EXCEPT !.prev = m.state,
              !.loc = [n \in {} |-> 0], !.ret = [n \in {} |-> 0], !.written = {}]

\* A call inside step has returned new arrays (cp.zeros, cp.zeros_like,
\* cp.pad or the result of array arithmetic), which it alone has written,
\* and step binds the names to them.
allocated(m, names) ==
    [m EXCEPT !.loc = [n \in names |-> m.fresh + place(LocalArrays, n)] @@ m.loc,
              !.written = m.written \cup { m.fresh + place(LocalArrays, n) : n \in names },
              !.fresh = m.fresh + Len(LocalArrays)]

\* new_state = GPUArrays(...): cp.asarray of the offsets, momenta and
\* densities step holds, and copies of the fields.
FieldArrays == { "Ex", "Ey", "Ez", "Bx", "By", "Bz" }

\* A step that hands prev's Bz on instead of a copy of its own.
returned_sharing_Bz(m) ==
    [m EXCEPT !.ret = [n \in Range(StateArrays) |->
                          IF n = "Bz" THEN m.prev[n]
                          ELSE IF n \in FieldArrays
                          THEN m.fresh + place(StateArrays, n)
                          ELSE m.loc[n]],
              !.fresh = m.fresh + Len(StateArrays)]

returned(m) ==
    [m EXCEPT !.ret = [n \in Range(StateArrays) |->
                          IF n \in FieldArrays
                          THEN m.fresh + place(StateArrays, n)
                          ELSE m.loc[n]],
              !.fresh = m.fresh + Len(StateArrays)]


\* GPUArrays(...): the state of a slice.
GPUArrays(x_offt, y_offt, px, py, pz, Ex, Ey, Ez, Bx, By, Bz, ro, jx, jy, jz) ==
    [ x_offt |-> x_offt, y_offt |-> y_offt, px |-> px, py |-> py, pz |-> pz,
      Ex |-> Ex, Ey |-> Ey, Ez |-> Ez, Bx |-> Bx, By |-> By, Bz |-> Bz,
      ro |-> ro, jx |-> jx, jy |-> jy, jz |-> jz ]

\* (a + b) / 2 of two arrays
half_sum(a, b) == ArrayOver(ArrayAdd(a, b), RInt(2))

\* The averages taken with the averages of the pass before, where there are
\* any, in the place of the fields of prev.
averages_with_earlier(loc, prev) ==
    LET old == IF "Ex_avg" \in DOMAIN loc
               THEN [ Ex |-> loc.Ex_avg, Ey |-> loc.Ey_avg, Ez |-> loc.Ez_avg,
                      Bx |-> loc.Bx_avg, By |-> loc.By_avg ]
               ELSE prev
    IN  [ Ex_avg |-> half_sum(loc.Ex, old.Ex), Ey_avg |-> half_sum(loc.Ey, old.Ey),
          Ez_avg |-> half_sum(loc.Ez, old.Ez), Bx_avg |-> half_sum(loc.Bx, old.Bx),
          By_avg |-> half_sum(loc.By, old.By) ]

\* Ex_avg = (Ex + prev.Ex) / 2 and the four statements after it.
averages(loc, prev) ==
    [ Ex_avg |-> half_sum(loc.Ex, prev.Ex), Ey_avg |-> half_sum(loc.Ey, prev.Ey),
      Ez_avg |-> half_sum(loc.Ez, prev.Ez), Bx_avg |-> half_sum(loc.Bx, prev.Bx),
      By_avg |-> half_sum(loc.By, prev.By) ]

\* The field arguments of a move_smart call.
field_arguments(Ex, Ey, Ez, Bx, By) ==
    [ Ex |-> Ex, Ey |-> Ey, Ez |-> Ez, Bx |-> Bx, By |-> By ]

\* The Ex_avg, Ey_avg, Bx_avg, By_avg arguments of a calculate_Ex_Ey_Bx_By call.
averaged_arguments(Ex_avg, Ey_avg, Bx_avg, By_avg) ==
    [ Ex |-> Ex_avg, Ey |-> Ey_avg, Bx |-> Bx_avg, By |-> By_avg ]

\* The averages as the field arguments of a move_smart call.
averages_as_arguments(avg) ==
    field_arguments(avg.Ex_avg, avg.Ey_avg, avg.Ez_avg, avg.Bx_avg, avg.By_avg)

\* The particle arguments of a deposit call.
deposit_arguments(g, loc) ==
    CoarsePlasma(loc.x_offt, loc.y_offt, g.m, g.q, loc.px, loc.py, loc.pz)

\* A call has returned out: its names are assigned, the rest of the locals
\* stay, and the history grows by the call.
assigned(call, out) ==
    /\ step_loc' = out @@ step_loc
    /\ step_log' = Append(step_log, [ call |-> call, out |-> out ])
    /\ mem' = allocated(mem, DOMAIN out)

\* The first statements of step: Bz is assigned, and the names of the first
\* call that has returned out.
started(Bz, call, out) ==
    /\ step_loc' = [ Bz |-> Bz ] @@ out
    /\ step_log' = Append(step_log, [ call |-> call, out |-> out ])
    /\ mem' = allocated(mem, { "Bz" } \cup DOMAIN out)

\* A variant whose Bz is the Bz of prev.
StepEstimateKeepingBz ==
    /\ step_pc = "called"
    /\ started(step_in.prev.Bz, "move_estimate_wo_fields",
           move_estimate_wo_fields(
               gpu.xi_step_size, gpu.reflect_boundary, gpu.m, gpu.x_init, gpu.y_init,
               step_in.prev.x_offt, step_in.prev.y_offt,
               step_in.prev.px, step_in.prev.py, step_in.prev.pz))
    /\ step_pc' = "push_1"
    /\ UNCHANGED <<main_pc, xi_i, run, state, step_in, step_ret, main_log>>
    /\ UNCHANGED <<plasmaVars, depositVars, pushVars, sweepVars, initVars, callVars>>

\* Bz = cp.zeros_like(prev.Bz); x_offt, y_offt = move_estimate_wo_fields(...)
StepEstimate ==
    /\ step_pc = "called"
    /\ started(zeros(gpu.grid_steps, gpu.grid_steps), "move_estimate_wo_fields",
           move_estimate_wo_fields(
               gpu.xi_step_size, gpu.reflect_boundary, gpu.m, gpu.x_init, gpu.y_init,
               step_in.prev.x_offt, step_in.prev.y_offt,
               step_in.prev.px, step_in.prev.py, step_in.prev.pz))
    /\ step_pc' = "push_1"
    /\ UNCHANGED <<main_pc, xi_i, run, state, step_in, step_ret, main_log>>
    /\ UNCHANGED <<plasmaVars, depositVars, pushVars, sweepVars, initVars, callVars>>

\* The first move_smart call: the fields are those of prev.
StepPush1 ==
    /\ step_pc = "push_1"
    /\ HalfstepsInGrid(gpu, step_in.prev, step_loc)
    /\ assigned("move_smart",
           move_smart(
               gpu.xi_step_size, gpu.reflect_boundary, gpu.grid_step_size,
               gpu.grid_steps, gpu.m, gpu.q, gpu.x_init, gpu.y_init,
               step_in.prev.x_offt, step_in.prev.y_offt,
               step_loc.x_offt, step_loc.y_offt,
               step_in.prev.px, step_in.prev.py, step_in.prev.pz,
               field_arguments(step_in.prev.Ex, step_in.prev.Ey, step_in.prev.Ez,
                               step_in.prev.Bx, step_in.prev.By)))
    /\ step_pc' = "deposit_1"
    /\ UNCHANGED <<main_pc, xi_i, run, state, step_in, step_ret, main_log>>
    /\ UNCHANGED <<plasmaVars, depositVars, pushVars, sweepVars, initVars, callVars>>

\* The first deposit call.
StepDeposit1 ==
    /\ step_pc = "deposit_1"
    /\ AllStencilsInGrid(gpu.grid_steps, gpu.grid_step_size, gpu.virt_params,
                         deposit_arguments(gpu, step_loc),
                         gpu.virtplasma_smallness_factor)
    /\ assigned("deposit",
           deposit(gpu.ro_initial, gpu.grid_steps, gpu.grid_step_size,
                   deposit_arguments(gpu, step_loc), gpu.virt_params,
                   gpu.virtplasma_smallness_factor))
    /\ step_pc' = "fields_1"
    /\ UNCHANGED <<main_pc, xi_i, run, state, step_in, step_ret, main_log>>
    /\ UNCHANGED <<plasmaVars, depositVars, pushVars, sweepVars, initVars, callVars>>

\* The first calculate_Ex_Ey_Bx_By call: "no halfstep-averaged fields yet",
\* the fields of prev take their place.
StepFields1 ==
    /\ step_pc = "fields_1"
    /\ assigned("calculate_Ex_Ey_Bx_By",
           calculate_Ex_Ey_Bx_By(
               gpu.grid_step_size, gpu.xi_step_size, gpu.subtraction_trick,
               gpu.mixed_solver,
               averaged_arguments(step_in.prev.Ex, step_in.prev.Ey,
                                  step_in.prev.Bx, step_in.prev.By),
               step_in.beam_ro, step_loc.ro, step_loc.jx, step_loc.jy, step_loc.jz,
               step_in.prev.jx, step_in.prev.jy))
    /\ step_pc' = "Ez_1"
    /\ UNCHANGED <<main_pc, xi_i, run, state, step_in, step_ret, main_log>>
    /\ UNCHANGED <<plasmaVars, depositVars, pushVars, sweepVars, initVars, callVars>>

\* The first calculate_Ez call.
StepEz1 ==
    /\ step_pc = "Ez_1"
    /\ assigned("calculate_Ez",
           [ Ez |-> calculate_Ez(gpu.dirichlet_solver, gpu.grid_step_size,
                                 step_loc.jx, step_loc.jy) ])
    /\ step_pc' = "average_1"
    /\ UNCHANGED <<main_pc, xi_i, run, state, step_in, step_ret, main_log>>
    /\ UNCHANGED <<plasmaVars, depositVars, pushVars, sweepVars, initVars, callVars>>

\* Ex_avg = (Ex + prev.Ex) / 2 ... By_avg = (By + prev.By) / 2, first time.
StepAverage1 ==
    /\ step_pc = "average_1"
    /\ step_loc' = averages(step_loc, step_in.prev) @@ step_loc
    /\ mem' = allocated(mem, DOMAIN averages(step_loc, step_in.prev))
    /\ step_pc' = "push_2"
    /\ UNCHANGED <<main_pc, xi_i, run, state, step_in, step_ret, step_log, main_log>>
    /\ UNCHANGED <<plasmaVars, depositVars, pushVars, sweepVars, initVars, callVars>>

\* A variant of the second move_smart call: it starts from the offsets and
\* momenta of the first.
StepPush2FromTrial ==
    /\ step_pc = "push_2"
    /\ HalfstepsInGrid(gpu, step_in.prev, step_loc)
    /\ assigned("move_smart",
           move_smart(
               gpu.xi_step_size, gpu.reflect_boundary, gpu.grid_step_size,
               gpu.grid_steps, gpu.m, gpu.q, gpu.x_init, gpu.y_init,
               step_loc.x_offt, step_loc.y_offt,
               step_loc.x_offt, step_loc.y_offt,
               step_loc.px, step_loc.py, step_loc.pz,
               field_arguments(step_loc.Ex_avg, step_loc.Ey_avg, step_loc.Ez_avg,
                               step_loc.Bx_avg, step_loc.By_avg)))
    /\ step_pc' = "deposit_2"
    /\ UNCHANGED <<main_pc, xi_i, run, state, step_in, step_ret, main_log>>
    /\ UNCHANGED <<plasmaVars, depositVars, pushVars, sweepVars, initVars, callVars>>

\* The second move_smart call: the averaged fields of the first solve.
StepPush2 ==
    /\ step_pc = "push_2"
    /\ HalfstepsInGrid(gpu, step_in.prev, step_loc)
    /\ assigned("move_smart",
           move_smart(
               gpu.xi_step_size, gpu.reflect_boundary, gpu.grid_step_size,
               gpu.grid_steps, gpu.m, gpu.q, gpu.x_init, gpu.y_init,
               step_in.prev.x_offt, step_in.prev.y_offt,
               step_loc.x_offt, step_loc.y_offt,
               step_in.prev.px, step_in.prev.py, step_in.prev.pz,
               field_arguments(step_loc.Ex_avg, step_loc.Ey_avg, step_loc.Ez_avg,
                               step_loc.Bx_avg, step_loc.By_avg)))
    /\ step_pc' = "deposit_2"
    /\ UNCHANGED <<main_pc, xi_i, run, state, step_in, step_ret, main_log>>
    /\ UNCHANGED <<plasmaVars, depositVars, pushVars, sweepVars, initVars, callVars>>

\* A variant of the second deposit call with a convergence check: step goes
\* to its return when the charge density is that of the first deposit.
StepDeposit2Converging ==
    /\ step_pc = "deposit_2"
    /\ AllStencilsInGrid(gpu.grid_steps, gpu.grid_step_size, gpu.virt_params,
                         deposit_arguments(gpu, step_loc),
                         gpu.virtplasma_smallness_factor)
    /\ assigned("deposit",
           deposit(gpu.ro_initial, gpu.grid_steps, gpu.grid_step_size,
                   deposit_arguments(gpu, step_loc), gpu.virt_params,
                   gpu.virtplasma_smallness_factor))
    /\ step_pc' = IF step_loc'.ro = step_loc.ro THEN "return" ELSE "fields_2"
    /\ UNCHANGED <<main_pc, xi_i, run, state, step_in, step_ret, main_log>>
    /\ UNCHANGED <<plasmaVars, depositVars, pushVars, sweepVars, initVars, callVars>>

\* The second deposit call.
StepDeposit2 ==
    /\ step_pc = "deposit_2"
    /\ AllStencilsInGrid(gpu.grid_steps, gpu.grid_step_size, gpu.virt_params,
                         deposit_arguments(gpu, step_loc),
                         gpu.virtplasma_smallness_factor)
    /\ assigned("deposit",
           deposit(gpu.ro_initial, gpu.grid_steps, gpu.grid_step_size,
                   deposit_arguments(gpu, step_loc), gpu.virt_params,
                   gpu.virtplasma_smallness_factor))
    /\ step_pc' = "fields_2"
    /\ UNCHANGED <<main_pc, xi_i, run, state, step_in, step_ret, main_log>>
    /\ UNCHANGED <<plasmaVars, depositVars, pushVars, sweepVars, initVars, callVars>>

\* The second calculate_Ex_Ey_Bx_By call, with Ex_avg, Ey_avg, Bx_avg, By_avg.
StepFields2 ==
    /\ step_pc = "fields_2"
    /\ assigned("calculate_Ex_Ey_Bx_By",
           calculate_Ex_Ey_Bx_By(
               gpu.grid_step_size, gpu.xi_step_size, gpu.subtraction_trick,
               gpu.mixed_solver,
               averaged_arguments(step_loc.Ex_avg, step_loc.Ey_avg,
                                  step_loc.Bx_avg, step_loc.By_avg),
               step_in.beam_ro, step_loc.ro, step_loc.jx, step_loc.jy, step_loc.jz,
               step_in.prev.jx, step_in.prev.jy))
    /\ step_pc' = "Ez_2"
    /\ UNCHANGED <<main_pc, xi_i, run, state, step_in, step_ret, main_log>>
    /\ UNCHANGED <<plasmaVars, depositVars, pushVars, sweepVars, initVars, callVars>>

\* The second calculate_Ez call.
StepEz2 ==
    /\ step_pc = "Ez_2"
    /\ assigned("calculate_Ez",
           [ Ez |-> calculate_Ez(gpu.dirichlet_solver, gpu.grid_step_size,
                                 step_loc.jx, step_loc.jy) ])
    /\ step_pc' = "average_2"
    /\ UNCHANGED <<main_pc, xi_i, run, state, step_in, step_ret, main_log>>
    /\ UNCHANGED <<plasmaVars, depositVars, pushVars, sweepVars, initVars, callVars>>

\* Ex_avg = (Ex + prev.Ex) / 2 ... By_avg = (By + prev.By) / 2, second time.
StepAverage2 ==
    /\ step_pc = "average_2"
    /\ step_loc' = averages(step_loc, step_in.prev) @@ step_loc
    /\ mem' = allocated(mem, DOMAIN averages(step_loc, step_in.prev))
    /\ step_pc' = "push_3"
    /\ UNCHANGED <<main_pc, xi_i, run, state, step_in, step_ret, step_log, main_log>>
    /\ UNCHANGED <<plasmaVars, depositVars, pushVars, sweepVars, initVars, callVars>>

\* The third move_smart call: the averaged fields of the second solve.
StepPush3 ==
    /\ step_pc = "push_3"
    /\ HalfstepsInGrid(gpu, step_in.prev, step_loc)
    /\ assigned("move_smart",
           move_smart(
               gpu.xi_step_size, gpu.reflect_boundary, gpu.grid_step_size,
               gpu.grid_steps, gpu.m, gpu.q, gpu.x_init, gpu.y_init,
               step_in.prev.x_offt, step_in.prev.y_offt,
               step_loc.x_offt, step_loc.y_offt,
               step_in.prev.px, step_in.prev.py, step_in.prev.pz,
               field_arguments(step_loc.Ex_avg, step_loc.Ey_avg, step_loc.Ez_avg,
                               step_loc.Bx_avg, step_loc.By_avg)))
    /\ step_pc' = "deposit_3"
    /\ UNCHANGED <<main_pc, xi_i, run, state, step_in, step_ret, main_log>>
    /\ UNCHANGED <<plasmaVars, depositVars, pushVars, sweepVars, initVars, callVars>>

\* The third deposit call.
\* A third deposition that accumulates into the ion background.
StepDeposit3IntoBackground ==
    /\ step_pc = "deposit_3"
    /\ AllStencilsInGrid(gpu.grid_steps, gpu.grid_step_size, gpu.virt_params,
                         deposit_arguments(gpu, step_loc),
                         gpu.virtplasma_smallness_factor)
    /\ assigned("deposit",
           deposit(gpu.ro_initial, gpu.grid_steps, gpu.grid_step_size,
                   deposit_arguments(gpu, step_loc), gpu.virt_params,
                   gpu.virtplasma_smallness_factor))
    /\ gpu' = [gpu EXCEPT !.ro_initial =
                   deposit(gpu.ro_initial, gpu.grid_steps, gpu.grid_step_size,
                           deposit_arguments(gpu, step_loc), gpu.virt_params,
                           gpu.virtplasma_smallness_factor).ro]
    /\ step_pc' = "return"
    /\ UNCHANGED <<main_pc, xi_i, run, state, step_in, step_ret, main_log>>
    /\ UNCHANGED <<plasmaVars, dep_pc, dep_c, dep_out, kern_threads, pushVars, sweepVars, initVars, callVars>>

StepDeposit3 ==
    /\ step_pc = "deposit_3"
    /\ AllStencilsInGrid(gpu.grid_steps, gpu.grid_step_size, gpu.virt_params,
                         deposit_arguments(gpu, step_loc),
                         gpu.virtplasma_smallness_factor)
    /\ assigned("deposit",
           deposit(gpu.ro_initial, gpu.grid_steps, gpu.grid_step_size,
                   deposit_arguments(gpu, step_loc), gpu.virt_params,
                   gpu.virtplasma_smallness_factor))
    /\ step_pc' = "return"
    /\ UNCHANGED <<main_pc, xi_i, run, state, step_in, step_ret, main_log>>
    /\ UNCHANGED <<plasmaVars, depositVars, pushVars, sweepVars, initVars, callVars>>

\* A variant of the return: the new state holds the averaged fields.
StepReturnAveraged ==
    /\ step_pc = "return"
    /\ step_ret' = GPUArrays(step_loc.x_offt, step_loc.y_offt,
                             step_loc.px, step_loc.py, step_loc.pz,
                             step_loc.Ex_avg, step_loc.Ey_avg, step_loc.Ez_avg,
                             step_loc.Bx_avg, step_loc.By_avg, step_loc.Bz,
                             step_loc.ro, step_loc.jx, step_loc.jy, step_loc.jz)
    /\ mem' = returned(mem)
    /\ step_pc' = "returned"
    /\ UNCHANGED <<main_pc, xi_i, run, state, step_in, step_loc, step_log, main_log>>
    /\ UNCHANGED <<plasmaVars, depositVars, pushVars, sweepVars, initVars, callVars>>

\* new_state = GPUArrays(...); return new_state
StepReturn ==
    /\ step_pc = "return"
    /\ step_ret' = GPUArrays(step_loc.x_offt, step_loc.y_offt,
                             step_loc.px, step_loc.py, step_loc.pz,
                             step_loc.Ex, step_loc.Ey, step_loc.Ez,
                             step_loc.Bx, step_loc.By, step_loc.Bz,
                             step_loc.ro, step_loc.jx, step_loc.jy, step_loc.jz)
    /\ mem' = returned(mem)
    /\ step_pc' = "returned"
    /\ UNCHANGED <<main_pc, xi_i, run, state, step_in, step_loc, step_log, main_log>>
    /\ UNCHANGED <<plasmaVars, depositVars, pushVars, sweepVars, initVars, callVars>>

\* A move_smart call is about to read field cells, or a deposit call to add
\* to grid cells, that are not in the arrays.
OutOfGrid ==
    IF step_pc \in { "push_1", "push_2", "push_3" }
    THEN ~HalfstepsInGrid(gpu, step_in.prev, step_loc)
    ELSE /\ step_pc \in { "deposit_1", "deposit_2", "deposit_3" }
         /\ ~AllStencilsInGrid(gpu.grid_steps, gpu.grid_step_size, gpu.virt_params,
                               deposit_arguments(gpu, step_loc),
                               gpu.virtplasma_smallness_factor)

\* The kernels index outside their arrays: what step does from here on is
\* not defined.
StepOutOfGrid ==
    /\ OutOfGrid
    /\ step_pc' = "undefined"
    /\ UNCHANGED <<main_pc, xi_i, run, state, step_in, step_loc, step_ret, step_log, main_log, mem>>
    /\ UNCHANGED <<plasmaVars, depositVars, pushVars, sweepVars, initVars, callVars>>

NextStep ==
    \/ StepEstimate
    \/ StepPush1 \/ StepDeposit1 \/ StepFields1 \/ StepEz1 \/ StepAverage1
    \/ StepPush2 \/ StepDeposit2 \/ StepFields2 \/ StepEz2 \/ StepAverage2
    \/ StepPush3 \/ StepDeposit3
    \/ StepReturn
    \/ StepOutOfGrid

\* init's grid: the coordinates of the grid cells, xs and ys.
init_grid(grid_steps, grid_step_size) ==
    Evaluated([i \in 0 .. grid_steps - 1 |->
        RMul(RInt(i - (grid_steps \div 2)), grid_step_size)])

\* init's state: the unperturbed plasma, no fields, no densities.
init_state(g) ==
    GPUArrays(g.virt_params.x_offt, g.virt_params.y_offt,
              g.virt_params.px, g.virt_params.py, g.virt_params.pz,
              zeros(g.grid_steps, g.grid_steps), zeros(g.grid_steps, g.grid_steps),
              zeros(g.grid_steps, g.grid_steps), zeros(g.grid_steps, g.grid_steps),
              zeros(g.grid_steps, g.grid_steps), zeros(g.grid_steps, g.grid_steps),
              zeros(g.grid_steps, g.grid_steps), zeros(g.grid_steps, g.grid_steps),
              zeros(g.grid_steps, g.grid_steps), zeros(g.grid_steps, g.grid_steps))

\* The beams the specifications draw as config.beam: a density that grows
\* in proportion to rate from slice to slice and falls off around the cell
\* (x0, y0); no beam is the rate zero.
Beam(rate, x0, y0) == [ rate |-> rate, x0 |-> x0, y0 |-> y0 ]
beam_density(b, slice, x, y) ==
    RDiv(RMul(b.rate, RInt(slice + 1)),
         RAdd(One, RMul(RInt(4), RAdd(RSq(RSub(x, b.x0)), RSq(RSub(y, b.y0))))))

\* config.beam(xi_i, xs, ys), slice being xi_i
beam(b, slice, xs, ys) ==
    Evaluated([i \in DOMAIN xs |-> Evaluated([j \in DOMAIN ys |->
        beam_density(b, slice, xs[i], ys[j])])])

StepConfigs ==
    { Config(7, One, Half, 1, 3, 2, 1, 1), Config(7, One, Half, 0, 3, 2, 1, 1) }

\* The particle of the previous state: its offsets in units of the grid
\* step and its momentum in units of its mass.
StepParticles ==
    { <<Zero, Zero, <<Zero, Zero, Zero>>>>,
      <<Zero, Zero, <<Zero, Zero, <<3, 4>>>>>>,
      <<<<1, 4>>, Zero, <<<<3, 4>>, Zero, Zero>>>>,
      <<Zero, <<-1, 4>>, <<One, One, One>>>>,
      <<<<-1, 4>>, <<1, 4>>, <<Zero, <<-3, 4>>, Zero>>>>,
      <<<<-1, 4>>, <<-1, 4>>, <<Zero, RInt(-4), RInt(8)>>>>,
      <<<<-1, 4>>, Zero, <<RInt(14), Zero, RInt(98)>>>>,
      <<<<1, 4>>, Zero, <<RInt(14), Zero, RInt(98)>>>> }

\* The fields of the previous state: none, or a uniform Ex.
StepFields == { Zero, <<1, 4>> }

StepBeams == { Beam(Zero, Zero, Zero), Beam(<<1, 5>>, One, Zero) }

\* The state of the plasma c with the fields F and the densities d.
slice_state(c, F, d) ==
    GPUArrays(c.x_offt, c.y_offt, c.px, c.py, c.pz,
              F.Ex, F.Ey, F.Ez, F.Bx, F.By, F.Bz, d.ro, d.jx, d.jy, d.jz)

\* The Bz of the state step is given as prev: zero, or a uniform one half.
StepBz == { Zero, Half }

\* The fields F with a uniform Bz.
with_Bz(F, grid_steps, Bz) == [F EXCEPT !.Bz = full(grid_steps, grid_steps, Bz)]

\* A state step is given as prev: the plasma c, a uniform Ex, a uniform Bz,
\* and the densities deposit gives for c.
previous_state(g, c, Ex, Bz) ==
    slice_state(c, with_Bz(uniform_fields(g.grid_steps, Ex), g.grid_steps, Bz),
                deposit(g.ro_initial, g.grid_steps, g.grid_step_size, c,
                        g.virt_params, g.virtplasma_smallness_factor))

\* The arguments of a call of step.
step_arguments(beam_ro, prev) == [ beam_ro |-> beam_ro, prev |-> prev ]

\* init(config) up to the construction of the GPUMonolith and load(m, q).
InitStep ==
    /\ IdleSweep
    /\ IdleInit
    /\ IdleCall
    /\ IdlePlasma
    /\ IdlePush
    /\ IdleStep
    /\ \E config \in StepConfigs :
          /\ ConfigAccepted(config)
          /\ gpu = GPUMonolith(config,
                     plasma_make(config.grid_steps - config.plasma_padding_steps * 2,
                                 config.grid_step_size,
                                 config.plasma_coarseness, config.plasma_fineness))
    /\ dep_pc = "constructed"
    /\ dep_c = NoTable
    /\ dep_out = NoTable
    /\ kern_threads = <<>>

\* step(beam_ro, prev) is called on the GPUMonolith with a previous state of
\* one perturbed particle and the beam of slice 0.
CallStep ==
    /\ dep_pc = "ready"
    /\ step_pc = "idle"
    /\ \E particle \in StepParticles, Ex \in StepFields, Bz \in StepBz, b \in StepBeams :
          /\ Ex = Zero \/ particle[3] \notin FastMomenta
          /\ step_in' = step_arguments(
              beam(b, 0, init_grid(gpu.grid_steps, gpu.grid_step_size),
                   init_grid(gpu.grid_steps, gpu.grid_step_size)),
              previous_state(gpu,
                  Perturbed(gpu, 0, 0, particle[1], particle[2], particle[3]), Ex, Bz))
    /\ mem' = called_with(constructed)
    /\ step_pc' = "called"
    /\ UNCHANGED <<main_pc, xi_i, run, state, step_loc, step_ret, step_log, main_log>>
    /\ UNCHANGED <<plasmaVars, depositVars, pushVars, sweepVars, initVars, callVars>>

NextStepCalled == InitialDeposition \/ CallStep \/ NextStep

SpecStep == InitStep /\ [][NextStepCalled]_vars

\* The calls step has made so far, by name.
calls_made == [k \in 1 .. Len(step_log) |-> step_log[k].call]

\* The number of calls of the name call among them.
times_called(call) == Cardinality({ k \in 1 .. Len(step_log) : step_log[k].call = call })

\* One predictor push, then full push, deposit and field solve twice, then
\* full push and deposit.
three_passes ==
    << "move_estimate_wo_fields",
       "move_smart", "deposit", "calculate_Ex_Ey_Bx_By", "calculate_Ez",
       "move_smart", "deposit", "calculate_Ex_Ey_Bx_By", "calculate_Ez",
       "move_smart", "deposit" >>

\* C1: whatever the previous state and the beam, the calls a call of step
\* has made are a beginning of the fixed sequence predictor push, then full
\* push, deposit, field solve (mixed fields and Ez) twice, then full push,
\* deposit; when step has returned it has made all of them, 3 full pushes,
\* 3 deposits and 2 field solves, and has returned a new state.
C1_ThreeFixedPasses ==
    /\ Len(step_log) <= Len(three_passes)
    /\ calls_made = SubSeq(three_passes, 1, Len(step_log))
    /\ step_pc = "returned" =>
          /\ calls_made = three_passes
          /\ times_called("move_estimate_wo_fields") = 1
          /\ times_called("move_smart") = 3
          /\ times_called("deposit") = 3
          /\ times_called("calculate_Ex_Ey_Bx_By") = 2
          /\ times_called("calculate_Ez") = 2
          /\ DOMAIN step_ret = DOMAIN step_in.prev

\* step has returned for a plasma at rest with no beam, whose three deposits
\* give the same densities, and nevertheless made all its calls.
C1_Witness ==
    /\ step_pc = "returned"
    /\ Len(step_log) = 11
    /\ step_log[7].out = step_log[3].out
    /\ step_log[11].out = step_log[3].out
    /\ times_called("move_smart") = 3

\* All the fields of prev are zero; the beam density is zero.
ZeroFieldsBefore ==
    /\ step_in.prev.Ex = zeros(gpu.grid_steps, gpu.grid_steps)
    /\ step_in.prev.Ey = zeros(gpu.grid_steps, gpu.grid_steps)
    /\ step_in.prev.Ez = zeros(gpu.grid_steps, gpu.grid_steps)
    /\ step_in.prev.Bx = zeros(gpu.grid_steps, gpu.grid_steps)
    /\ step_in.prev.By = zeros(gpu.grid_steps, gpu.grid_steps)
    /\ step_in.prev.Bz = zeros(gpu.grid_steps, gpu.grid_steps)
NoBeam == step_in.beam_ro = zeros(gpu.grid_steps, gpu.grid_steps)

\* The offset offt of prev plus the free-streaming increment
\* p / (gamma_m - pz) * xi_step_size of the particle (i, j) of prev.
free_streamed(offt, p, i, j) ==
    RAdd(offt,
         RMul(RDiv(p, RSub(gamma_m_of(gpu.m[i][j], step_in.prev.px[i][j],
                                      step_in.prev.py[i][j], step_in.prev.pz[i][j]),
                           step_in.prev.pz[i][j])),
              gpu.xi_step_size))

\* Free streaming keeps the particle (i, j) of prev inside the reflect
\* boundary.
StreamsInside(i, j) ==
    /\ Within(RAdd(gpu.x_init[i][j],
                   free_streamed(step_in.prev.x_offt[i][j], step_in.prev.px[i][j], i, j)),
              gpu.reflect_boundary)
    /\ Within(RAdd(gpu.y_init[i][j],
                   free_streamed(step_in.prev.y_offt[i][j], step_in.prev.py[i][j], i, j)),
              gpu.reflect_boundary)

\* |a - b| <= tol
Close(a, b, tol) == Within(RSub(a, b), tol)

\* The particles of new that are not reflected have, up to tol, the momenta
\* of prev and the offsets of prev plus the free-streaming increment.
FreeStreamed(new, tol) ==
    \A i, j \in 0 .. gpu.Nc - 1 :
        StreamsInside(i, j) =>
            /\ Close(new.px[i][j], step_in.prev.px[i][j], tol)
            /\ Close(new.py[i][j], step_in.prev.py[i][j], tol)
            /\ Close(new.pz[i][j], step_in.prev.pz[i][j], tol)
            /\ Close(new.x_offt[i][j],
                     free_streamed(step_in.prev.x_offt[i][j], step_in.prev.px[i][j], i, j), tol)
            /\ Close(new.y_offt[i][j],
                     free_streamed(step_in.prev.y_offt[i][j], step_in.prev.py[i][j], i, j), tol)

\* Both field solves of the step have returned zero fields.
SolvedZeroFields ==
    /\ \A k \in { 4, 8 } :
          /\ step_log[k].out.Ex = zeros(gpu.grid_steps, gpu.grid_steps)
          /\ step_log[k].out.Ey = zeros(gpu.grid_steps, gpu.grid_steps)
          /\ step_log[k].out.Bx = zeros(gpu.grid_steps, gpu.grid_steps)
          /\ step_log[k].out.By = zeros(gpu.grid_steps, gpu.grid_steps)
    /\ \A k \in { 5, 9 } :
          step_log[k].out.Ez = zeros(gpu.grid_steps, gpu.grid_steps)

\* A thousandth, the tolerance of the comparison of momenta and offsets.
Tolerance == <<1, 1000>>

\* C6 (as stated): when all the fields of prev are zero and the beam density
\* is zero, step returns, for every particle that is not reflected and for
\* any momenta and offsets of prev, the momenta of prev and the offsets of
\* prev plus the free-streaming increment.
C6_ZeroFieldsFreeStream ==
    (step_pc = "returned" /\ ZeroFieldsBefore /\ NoBeam) =>
        FreeStreamed(step_ret, Tolerance)

\* C6 (amended): when all the fields of prev are zero, the first full push
\* of step gives, for every particle that is not reflected and for any
\* momenta and offsets of prev, exactly the momenta of prev and the offsets
\* of prev plus the free-streaming increment; the state step returns has
\* them when also the beam density is zero and both field solves of the
\* step have returned zero fields, which is sufficient for it and not
\* necessary.
C6_FirstPushFreeStreams ==
    /\ (Len(step_log) >= 2 /\ ZeroFieldsBefore) =>
          FreeStreamed(step_log[2].out, Zero)
    /\ (step_pc = "returned" /\ ZeroFieldsBefore /\ NoBeam /\ SolvedZeroFields) =>
          FreeStreamed(step_ret, Zero)

\* step has returned from zero fields and no beam for a moving particle that
\* is not reflected: its first push is the free streaming, and the state
\* returned is not, the fields of the displaced plasma having acted in the
\* second and the third push.
C6_Witness ==
    /\ step_pc = "returned"
    /\ ZeroFieldsBefore
    /\ NoBeam
    /\ \E i, j \in 0 .. gpu.Nc - 1 :
          /\ StreamsInside(i, j)
          /\ step_in.prev.px[i][j] # Zero
          /\ step_log[2].out.x_offt[i][j] # step_in.prev.x_offt[i][j]
    /\ FreeStreamed(step_log[2].out, Zero)
    /\ ~SolvedZeroFields
    /\ ~FreeStreamed(step_ret, Tolerance)

\* step has returned from zero fields and no beam for the plasma at rest:
\* both solves have returned zero fields and the state returned is prev's.
C6_AtRest ==
    /\ step_pc = "returned"
    /\ ZeroFieldsBefore
    /\ NoBeam
    /\ SolvedZeroFields
    /\ FreeStreamed(step_ret, Zero)

\* step has returned from zero fields and no beam for a particle moving
\* along the axis of the window: the solves have returned fields that are
\* not zero and vanish where the particle is, and the state returned is the
\* free streaming.
C6_FieldsVanishAtParticle ==
    /\ step_pc = "returned"
    /\ ZeroFieldsBefore
    /\ NoBeam
    /\ ~SolvedZeroFields
    /\ \E i, j \in 0 .. gpu.Nc - 1 : step_in.prev.pz[i][j] # Zero
    /\ FreeStreamed(step_ret, Zero)

\* The fields a full push of step is given: those of prev in the first, the
\* averages of the latest solve with prev in the second and third; k is the
\* place of the push among the calls.
push_fields(k) ==
    IF k = 2
    THEN field_arguments(step_in.prev.Ex, step_in.prev.Ey, step_in.prev.Ez,
                         step_in.prev.Bx, step_in.prev.By)
    ELSE averages_as_arguments(averages(step_log[k - 1].out @@ step_log[k - 2].out,
                                        step_in.prev))

\* The push before the full push at the place k: the predictor for the
\* first, the full push of the pass before for the others.
push_before(k) == IF k = 2 THEN 1 ELSE k - 4

\* What move_smart returns from the offsets and momenta of prev with the
\* offsets est as the estimate.
pushed_from_prev(est, F) ==
    move_smart(gpu.xi_step_size, gpu.reflect_boundary, gpu.grid_step_size,
               gpu.grid_steps, gpu.m, gpu.q, gpu.x_init, gpu.y_init,
               step_in.prev.x_offt, step_in.prev.y_offt, est.x_offt, est.y_offt,
               step_in.prev.px, step_in.prev.py, step_in.prev.pz, F)

\* C7: each of the three full pushes of a step returns what move_smart gives
\* from the offsets and momenta of prev, with the offsets of the push before
\* it as the estimate of the half-step position only.
C7_PushesStartFromPrev ==
    \A k \in { 2, 6, 10 } :
        Len(step_log) >= k =>
            step_log[k].out = pushed_from_prev(step_log[push_before(k)].out, push_fields(k))

\* The three pushes are done, the first has changed the momenta and the
\* offsets of prev, and the second and third differ from it.
C7_Witness ==
    /\ Len(step_log) >= 10
    /\ step_log[2].out.px # step_in.prev.px
    /\ step_log[2].out.x_offt # step_in.prev.x_offt
    /\ step_log[6].out # step_log[2].out
    /\ step_log[10].out # step_log[6].out
    /\ step_log[10].out = pushed_from_prev(step_log[6].out, push_fields(10))

\* C8: the state step returns holds the offsets and momenta of the third
\* full push, the ro, jx, jy, jz of the third deposit, and as Ex, Ey, Bx, By
\* and Ez what the second calculate_Ex_Ey_Bx_By and the second calculate_Ez
\* returned, not the averages with the fields of prev.
C8_ReturnsLastPushDepositSolve ==
    step_pc = "returned" =>
        /\ step_ret.x_offt = step_log[10].out.x_offt
        /\ step_ret.y_offt = step_log[10].out.y_offt
        /\ step_ret.px = step_log[10].out.px
        /\ step_ret.py = step_log[10].out.py
        /\ step_ret.pz = step_log[10].out.pz
        /\ step_ret.ro = step_log[11].out.ro
        /\ step_ret.jx = step_log[11].out.jx
        /\ step_ret.jy = step_log[11].out.jy
        /\ step_ret.jz = step_log[11].out.jz
        /\ step_ret.Ex = step_log[8].out.Ex
        /\ step_ret.Ey = step_log[8].out.Ey
        /\ step_ret.Bx = step_log[8].out.Bx
        /\ step_ret.By = step_log[8].out.By
        /\ step_ret.Ez = step_log[9].out.Ez

\* step has returned; prev had fields, so that the averages differ from the
\* fields of the second solve, which differ from those of the first, and
\* the third push and deposit differ from the second.
C8_Witness ==
    /\ step_pc = "returned"
    /\ step_in.prev.Ex # zeros(gpu.grid_steps, gpu.grid_steps)
    /\ step_ret.Ex # step_loc.Ex_avg
    /\ step_ret.Ex = step_log[8].out.Ex
    /\ step_log[8].out.Ex # step_log[4].out.Ex
    /\ step_log[9].out.Ez # step_log[5].out.Ez
    /\ step_log[10].out # step_log[6].out
    /\ step_log[11].out # step_log[7].out

-----------------------------------------------------------------------------
(* main: init, then the loop over the slices *)

MainConfigs ==
    { Config(7, One, Half, 1, 3, 2, 1, 1), Config(7, One, RInt(8), 1, 3, 2, 1, 1) }

MainBeams == { Beam(Zero, Zero, Zero), Beam(<<1, 5>>, One, Zero), Beam(RInt(16), One, Zero) }

\* config.xi_steps is drawn from 0 .. MaxSlices.
MaxSlices == 2

\* config.diagnostics_each_N_steps is drawn from this set.
DiagnosticsEach == { 0, 1, 2 }

\* Module config's attributes that main itself reads.
Run(xi_steps, b, each) ==
    [ xi_steps |-> xi_steps, beam |-> b, diagnostics_each_N_steps |-> each ]

\* int(a): the integer part of the rational a, towards zero.
int_of(a) == IF a[1] < 0 THEN -((-a[1]) \div a[2]) ELSE a[1] \div a[2]

\* diags_ro_slice: xi_i % int(1 / config.xi_step_size) raises
\* ZeroDivisionError when int(1 / config.xi_step_size) is 0, that is for a
\* xi_step_size above 1.
diags_ro_slice_raises(xi_step_size) == int_of(RDiv(One, xi_step_size)) = 0

\* time_for_diags = xi_i % config.diagnostics_each_N_steps == 0
time_for_diags(i, each) == i % each = 0

\* last_step = xi_i == config.xi_steps - 1
last_step(i, xi_steps) == i = xi_steps - 1

\* The rest of the iteration xi_i = i of main's loop after the assignment
\* raises ZeroDivisionError: at time_for_diags when
\* config.diagnostics_each_N_steps is 0, and in diagnostics, called when it
\* is time for it or on the last slice, at diags_ro_slice.
iteration_raises(i, r, xi_step_size) ==
    \/ r.diagnostics_each_N_steps = 0
    \/ /\ time_for_diags(i, r.diagnostics_each_N_steps) \/ last_step(i, r.xi_steps)
       /\ diags_ro_slice_raises(xi_step_size)

\* main has called init(config), which has constructed the GPUMonolith and
\* loaded m and q.
InitMain ==
    /\ IdleSweep
    /\ IdleInit
    /\ IdleCall
    /\ IdlePlasma
    /\ IdlePush
    /\ \E config \in MainConfigs :
          /\ ConfigAccepted(config)
          /\ gpu = GPUMonolith(config,
                     plasma_make(config.grid_steps - config.plasma_padding_steps * 2,
                                 config.grid_step_size,
                                 config.plasma_coarseness, config.plasma_fineness))
    /\ dep_pc = "constructed"
    /\ dep_c = NoTable
    /\ dep_out = NoTable
    /\ kern_threads = <<>>
    /\ main_pc = "init"
    /\ xi_i = 0
    /\ \E xi_steps \in 0 .. MaxSlices, b \in MainBeams, each \in DiagnosticsEach :
          run = Run(xi_steps, b, each)
    /\ state = NoTable
    /\ step_pc = "idle"
    /\ step_in = NoTable
    /\ step_loc = NoTable
    /\ step_ret = NoTable
    /\ step_log = <<>>
    /\ main_log = <<>>
    /\ mem = NoTable

\* init returns after gpu.initial_deposition(...): main's state is init's,
\* and the for loop begins; xi_i is the index the loop gives next.
InitReturn ==
    /\ main_pc = "init"
    /\ dep_pc = "ready"
    /\ state' = init_state(gpu)
    /\ mem' = constructed
    /\ xi_i' = 0
    /\ main_pc' = "loop"
    /\ UNCHANGED <<run, step_pc, step_in, step_loc, step_ret, step_log, main_log>>
    /\ UNCHANGED <<plasmaVars, depositVars, pushVars, sweepVars, initVars, callVars>>

\* The entry of main's history for a call of step.
step_call(slice, beam_ro, prev) ==
    [ xi_i |-> slice, beam_ro |-> beam_ro, prev |-> prev, returned |-> NoTable ]

\* main has evaluated beam_ro and calls gpu.step(beam_ro, state).
calls_step(beam_ro) ==
    /\ step_in' = step_arguments(beam_ro, state)
    /\ main_log' = Append(main_log, step_call(xi_i, beam_ro, state))

\* beam_ro = config.beam(xi_i, xs, ys); gpu.step(beam_ro, state) is called.
MainCall ==
    /\ main_pc = "loop"
    /\ xi_i < run.xi_steps
    /\ calls_step(beam(run.beam, xi_i, init_grid(gpu.grid_steps, gpu.grid_step_size),
                       init_grid(gpu.grid_steps, gpu.grid_step_size)))
    /\ mem' = called_with(mem)
    /\ step_pc' = "called"
    /\ step_loc' = NoTable
    /\ step_ret' = NoTable
    /\ step_log' = <<>>
    /\ main_pc' = "in_step"
    /\ UNCHANGED <<xi_i, run, state>>
    /\ UNCHANGED <<plasmaVars, depositVars, pushVars, sweepVars, initVars, callVars>>

\* The rest of the iteration after the assignment: view, Ez_00,
\* time_for_diags, last_step and diagnostics, which read the state only.
\* main ends with ZeroDivisionError (main_pc "raised"), or the loop goes on
\* to the next index.
iteration_ends ==
    IF iteration_raises(xi_i, run, gpu.xi_step_size)
    THEN main_pc' = "raised" /\ xi_i' = xi_i
    ELSE main_pc' = "loop" /\ xi_i' = xi_i + 1

\* A variant of the assignment: the state main holds stays what it was.
MainAssignKeepingState ==
    /\ main_pc = "in_step"
    /\ step_pc = "returned"
    /\ main_log' = [main_log EXCEPT ![Len(main_log)].returned = step_ret]
    /\ iteration_ends
    /\ step_pc' = "idle"
    /\ UNCHANGED <<run, state, step_in, step_loc, step_ret, step_log, mem>>
    /\ UNCHANGED <<plasmaVars, depositVars, pushVars, sweepVars, initVars, callVars>>

\* state = gpu.step(...) is assigned, and the rest of the iteration runs.
MainAssign ==
    /\ main_pc = "in_step"
    /\ step_pc = "returned"
    /\ state' = step_ret
    /\ mem' = [mem EXCEPT !.state = mem.ret]
    /\ main_log' = [main_log EXCEPT ![Len(main_log)].returned = step_ret]
    /\ iteration_ends
    /\ step_pc' = "idle"
    /\ UNCHANGED <<run, step_in, step_loc, step_ret, step_log>>
    /\ UNCHANGED <<plasmaVars, depositVars, pushVars, sweepVars, initVars, callVars>>

\* range(config.xi_steps) is exhausted: main returns.
MainExit ==
    /\ main_pc = "loop"
    /\ xi_i >= run.xi_steps
    /\ main_pc' = "done"
    /\ UNCHANGED <<xi_i, run, state, step_pc, step_in, step_loc, step_ret, step_log, main_log, mem>>
    /\ UNCHANGED <<plasmaVars, depositVars, pushVars, sweepVars, initVars, callVars>>

NextMain ==
    \/ InitialDeposition
    \/ InitReturn
    \/ MainCall
    \/ NextStep
    \/ MainAssign
    \/ MainExit

SpecMain == InitMain /\ [][NextMain]_vars

(* GPUArraysView.__setattr__ and the properties of GPUMonolith *)

\* How many assignments a holder of the object and of the state makes.
MaxAssignments == 2

\* The host values assigned, each as the rows it has once its shape is
\* filled up with leading ones: the scalars 0 and 1, vectors of 2, of Nc and
\* of grid_steps elements, and arrays Nc x Nc and grid_steps x grid_steps.
host_array(r, c) ==
    Evaluated([i \in 0 .. r - 1 |->
        Evaluated([j \in 0 .. c - 1 |-> RInt(i * c + j + 1)])])
host_values(g) ==
    { full(1, 1, Zero), full(1, 1, One),
      host_array(1, 2), host_array(1, g.Nc), host_array(1, g.grid_steps),
      host_array(g.Nc, g.Nc), host_array(g.grid_steps, g.grid_steps) }

\* value can be broadcast to the shape of the array a: each of its
\* dimensions is 1 or that of a.
broadcasts(value, a) ==
    /\ ALen(value) \in { 1, ALen(a) }
    /\ ALen(value[0]) \in { 1, ALen(a[0]) }

\* a[...] = value: every cell of a takes the cell of value broadcast to it.
setitem(a, value) ==
    Evaluated([i \in DOMAIN a |->
        Evaluated([j \in DOMAIN a[i] |->
            value[IF ALen(value) = 1 THEN 0 ELSE i]
                 [IF ALen(value[0]) = 1 THEN 0 ELSE j]])])

\* view.attrname = value: getattr(self._arrs, attrname)[...] = value stores
\* value, broadcast, in the array the GPUArrays holds.
view_setattr(arrs, attrname, value) ==
    [arrs EXCEPT ![attrname] = setitem(@, value)]

\* gpu.name = value for a property hook_property has installed: the setter's
\* getattr(self, '_' + name)[...] = value stores value, broadcast, in the
\* array of the object.
monolith_setattr(g, name, value) ==
    [g EXCEPT ![name] = setitem(@, value)]

\* The properties GPUMonolith.__init__ installs, one for each array
\* attribute with a leading underscore, and the attribute of each.
MonolithProperties ==
    [ x_init |-> "_x_init", y_init |-> "_y_init", m |-> "_m", q |-> "_q",
      ro_initial |-> "_ro_initial" ]

\* The assignments made so far.
assignments == IF call_pc = "idle" THEN 0 ELSE call_args.n

\* The assignment fn of value to attrname is the next one made.
assigns(fn, attrname, value) ==
    call_args' = [ fn |-> fn, attrname |-> attrname, value |-> value,
                   n |-> assignments + 1 ]

\* The assignment raises the exception named: nothing is stored.
assignment_raises(exception) ==
    /\ call_pc' = "raised"
    /\ call_ret' = exception
    /\ UNCHANGED <<gpu, state, mem>>

\* A holder of GPUArraysView(state), state being what init has returned,
\* assigns an attribute of the view: the array of the state is written in
\* place. An attribute the GPUArrays has not raises AttributeError, a value
\* that cannot be broadcast ValueError.
ViewSetattr ==
    /\ main_pc = "loop"
    /\ assignments < MaxAssignments
    /\ \E attrname \in Range(StateArrays) \cup { "ro_initial" },
          value \in host_values(gpu) :
          /\ assigns("GPUArraysView.__setattr__", attrname, value)
          /\ IF attrname \notin DOMAIN state
             THEN assignment_raises("AttributeError")
             ELSE IF ~broadcasts(value, state[attrname])
             THEN assignment_raises("ValueError")
             ELSE /\ state' = view_setattr(state, attrname, value)
                  /\ mem' = [mem EXCEPT !.written = @ \cup { mem.state[attrname] }]
                  /\ call_pc' = "returned"
                  /\ call_ret' = NoTable
                  /\ UNCHANGED gpu
    /\ UNCHANGED <<main_pc, xi_i, run, step_pc, step_in, step_loc, step_ret, step_log, main_log>>
    /\ UNCHANGED <<dep_pc, dep_c, dep_out, kern_threads>>
    /\ UNCHANGED <<plasmaVars, pushVars, sweepVars, initVars>>

\* A holder of the object init has returned assigns one of its properties:
\* the array of the object is written in place. A value that cannot be
\* broadcast raises ValueError.
MonolithSetattr ==
    /\ main_pc = "loop"
    /\ assignments < MaxAssignments
    /\ \E name \in DOMAIN MonolithProperties, value \in host_values(gpu) :
          /\ assigns("GPUMonolith." \o name, name, value)
          /\ IF ~broadcasts(value, gpu[name])
             THEN assignment_raises("ValueError")
             ELSE /\ gpu' = monolith_setattr(gpu, name, value)
                  /\ mem' = [mem EXCEPT !.written =
                                @ \cup { mem.solver[MonolithProperties[name]] }]
                  /\ call_pc' = "returned"
                  /\ call_ret' = NoTable
                  /\ UNCHANGED state
    /\ UNCHANGED <<main_pc, xi_i, run, step_pc, step_in, step_loc, step_ret, step_log, main_log>>
    /\ UNCHANGED <<dep_pc, dep_c, dep_out, kern_threads>>
    /\ UNCHANGED <<plasmaVars, pushVars, sweepVars, initVars>>

\* init(config) is called by a holder that goes on to assign, not to loop
\* over slices.
InitView ==
    /\ InitMain
    /\ run = Run(0, Beam(Zero, Zero, Zero), 1)

NextView ==
    \/ InitialDeposition
    \/ InitReturn
    \/ ViewSetattr
    \/ MonolithSetattr

SpecView == InitView /\ [][NextView]_vars

\* Assignments through the view and the properties rebind no array and
\* change the shape of none; an array that has not been written holds what
\* init has left in it.
AssignmentsWriteInPlace ==
    main_pc = "loop" =>
        /\ mem.state = constructed.state
        /\ mem.solver = constructed.solver
        /\ \A attrname \in Range(StateArrays) :
              /\ DOMAIN state[attrname] = DOMAIN init_state(gpu)[attrname]
              /\ DOMAIN state[attrname][0] = DOMAIN init_state(gpu)[attrname][0]
              /\ mem.state[attrname] \notin mem.written =>
                    state[attrname] = init_state(gpu)[attrname]
        /\ \A name \in { "x_init", "y_init", "m", "q" } :
              /\ DOMAIN gpu[name] = DOMAIN gpu.virt_params[name]
              /\ mem.solver[MonolithProperties[name]] \notin mem.written =>
                    gpu[name] = gpu.virt_params[name]
        /\ DOMAIN gpu.ro_initial = 0 .. gpu.grid_steps - 1

\* An assignment changes at most the array it names, and none when it
\* raises.
AssignmentWritesNamed ==
    main_pc = "loop" =>
        /\ \A attrname \in Range(StateArrays) :
              state'[attrname] # state[attrname] =>
                  /\ call_pc' = "returned"
                  /\ call_args'.fn = "GPUArraysView.__setattr__"
                  /\ call_args'.attrname = attrname
        /\ \A name \in DOMAIN MonolithProperties :
              gpu'[name] # gpu[name] =>
                  /\ call_pc' = "returned"
                  /\ call_args'.fn = "GPUMonolith." \o name
        /\ call_pc' = "raised" => (state' = state /\ gpu' = gpu /\ mem' = mem)
AssignmentsWriteNamed == [][AssignmentWritesNamed]_vars

\* Two assignments have been made, one through the view and one through a
\* property, a vector broadcast to the rows of an array among them.
AssignedTwice ==
    /\ call_pc = "returned"
    /\ call_args.n = 2
    /\ ALen(call_args.value) = 1
    /\ ALen(call_args.value[0]) > 1
    /\ Cardinality(mem.written) = 2
    /\ mem.written \cap Range(mem.solver) # {}
    /\ mem.written \cap Range(mem.state) # {}

\* An assignment has raised ValueError.
AssignmentRaised == call_pc = "raised" /\ call_ret = "ValueError"

\* C9: main calls step once for each slice index 0 .. xi_steps - 1, in
\* increasing order and never again for an index; the state it passes for
\* the slice 0 is init's, and the state it passes for a later slice is the
\* state the step of the slice before returned. A main that ends with the
\* ZeroDivisionError of its diagnostics has done so for the slices up to the
\* one it ends in.
C9_OneStepPerSliceChained ==
    /\ main_pc \in { "loop", "in_step", "done", "raised" } =>
          /\ Len(main_log) = xi_i + (IF main_pc \in { "in_step", "raised" } THEN 1 ELSE 0)
          /\ Len(main_log) <= run.xi_steps
    /\ main_pc = "done" => Len(main_log) = run.xi_steps
    /\ \A k \in 1 .. Len(main_log) :
          /\ main_log[k].xi_i = k - 1
          /\ main_log[k].prev = (IF k = 1 THEN init_state(gpu)
                                 ELSE main_log[k - 1].returned)
          /\ main_log[k].beam_ro =
                 beam(run.beam, k - 1, init_grid(gpu.grid_steps, gpu.grid_step_size),
                      init_grid(gpu.grid_steps, gpu.grid_step_size))
    /\ step_pc \in { "called", "returned" } =>
          /\ step_in.prev = main_log[Len(main_log)].prev
          /\ step_in.beam_ro = main_log[Len(main_log)].beam_ro

\* main is done with more than one slice of a beam: the second step was
\* given the state the first returned, which is not init's, and returned
\* another.
C9_Witness ==
    /\ main_pc = "done"
    /\ run.xi_steps >= 2
    /\ Len(main_log) = run.xi_steps
    /\ main_log[1].prev = init_state(gpu)
    /\ main_log[1].returned # main_log[1].prev
    /\ main_log[2].prev = main_log[1].returned
    /\ main_log[2].returned # main_log[2].prev
    /\ main_log[2].beam_ro # main_log[1].beam_ro
    /\ state = main_log[run.xi_steps].returned

-----------------------------------------------------------------------------
(* The multipliers of the solvers *)

\* lamb[i] + lamb[j] + s for every mode (i, j).
mode_sums(lam, s) ==
    [i \in DOMAIN lam \ {ALen(lam) - 1} |-> [j \in DOMAIN lam \ {ALen(lam) - 1} |->
        RAdd(RAdd(lam[i], lam[j]), s)]]

\* mul[i, j] is, up to tol, a constant over sums[i, j]: the products
\* mul[i, j] * sums[i, j] are the same for all modes.
InverselyProportional(mul, sums, tol) ==
    \A i, j \in DOMAIN mul :
        Close(RMul(mul[i][j], sums[i][j]), RMul(mul[0][0], sums[0][0]), tol)

\* The multiplier of DirichletSolver is inversely proportional to
\* lamb[i] + lamb[j].
DirichletFactorInverse ==
    InverselyProportional(gpu.dirichlet_solver.mul,
        mode_sums(lamb(gpu.grid_steps, gpu.grid_step_size), Zero), Tolerance)

\* C13: MixedSolver scales mode (i, j) by a factor inversely proportional to
\* lamb[i] + lamb[j] + subtraction_trick, and so, with subtraction_trick = 0,
\* by one inversely proportional to lamb[i] + lamb[j], like DirichletSolver.
C13_MixedFactorInverse ==
    InverselyProportional(gpu.mixed_solver.mul,
        mode_sums(lamb(gpu.grid_steps, gpu.grid_step_size), gpu.subtraction_trick),
        Tolerance)

\* What the code computes: (lamb[i] + lamb[j]) over
\* (lamb[i] + lamb[j] + subtraction_trick) (2 (N - 1))^2, which with
\* subtraction_trick = 0 is the same 1 / (2 (N - 1))^2 for every mode.
MixedFactorAsComputed ==
    /\ \A i, j \in DOMAIN gpu.mixed_solver.mul :
          Close(RMul(gpu.mixed_solver.mul[i][j],
                     mode_sums(lamb(gpu.grid_steps, gpu.grid_step_size),
                               gpu.subtraction_trick)[i][j]),
                RDiv(mode_sums(lamb(gpu.grid_steps, gpu.grid_step_size), Zero)[i][j],
                     RInt((2 * (gpu.grid_steps - 1)) * (2 * (gpu.grid_steps - 1)))),
                Tolerance)
    /\ gpu.subtraction_trick = Zero =>
          \A i, j \in DOMAIN gpu.mixed_solver.mul :
              Close(gpu.mixed_solver.mul[i][j],
                    RDiv(One, RInt((2 * (gpu.grid_steps - 1)) * (2 * (gpu.grid_steps - 1)))),
                    Tolerance)

-----------------------------------------------------------------------------
(* The momentum of the position update of the full push *)

\* The momenta of the particle (i, j) before the push and as returned.
momentum_before(i, j) == <<push_in.c.px[i][j], push_in.c.py[i][j], push_in.c.pz[i][j]>>
momentum_returned(i, j) == <<push_out.px[i][j], push_out.py[i][j], push_out.pz[i][j]>>

\* The mean of the two: op + dp / 2 when the returned momentum is op + dp.
momentum_midway(i, j) ==
    <<RDiv(RAdd(momentum_before(i, j)[1], momentum_returned(i, j)[1]), RInt(2)),
      RDiv(RAdd(momentum_before(i, j)[2], momentum_returned(i, j)[2]), RInt(2)),
      RDiv(RAdd(momentum_before(i, j)[3], momentum_returned(i, j)[3]), RInt(2))>>

\* offt + p / (gamma_m - pz) * xi_step_size along axis k, gamma_m from p.
advanced_with(offt, p, k, i, j) ==
    drift(offt, p[k], RSub(gamma_m_of(gpu.m[i][j], p[1], p[2], p[3]), p[3]),
          gpu.xi_step_size)

\* The particle (i, j) is not reflected by the push.
PushedInside(i, j) ==
    /\ Within(RAdd(gpu.x_init[i][j], Unreflected(i, j).x_offt), gpu.reflect_boundary)
    /\ Within(RAdd(gpu.y_init[i][j], Unreflected(i, j).y_offt), gpu.reflect_boundary)

\* A hundredth, the tolerance of the comparison of advanced offsets: the
\* rounding of gamma_m - pz, a small difference of large numbers for the fast
\* particles, is magnified in the increment.
AdvanceTolerance == <<1, 100>>

\* The offsets the push returns for (i, j) are, up to AdvanceTolerance, the
\* previous ones advanced with the momentum p.
AdvancedWith(p, i, j) ==
    /\ Close(push_out.x_offt[i][j], advanced_with(push_in.c.x_offt[i][j], p, 1, i, j), AdvanceTolerance)
    /\ Close(push_out.y_offt[i][j], advanced_with(push_in.c.y_offt[i][j], p, 2, i, j), AdvanceTolerance)

\* C15 (as stated): the increment of the offset in a full push is
\* p / (gamma_m - pz) * xi_step_size with the momentum the push returns
\* (before any reflection) and the gamma_m of that momentum.
C15_OffsetFromReturnedMomentum ==
    push_pc = "pushed" =>
        \A i, j \in 0 .. gpu.Nc - 1 :
            PushedInside(i, j) => AdvancedWith(momentum_returned(i, j), i, j)

\* C15 (amended): the increment of the offset in a full push is
\* p / (gamma_m - pz) * xi_step_size with the half-kicked momentum
\* op + dp / 2 of the second iteration and the gamma_m of that momentum,
\* while the momentum the push returns is op + dp.
C15_OffsetFromHalfKick ==
    push_pc = "pushed" =>
        \A i, j \in 0 .. gpu.Nc - 1 :
            PushedInside(i, j) => AdvancedWith(momentum_midway(i, j), i, j)

\* A push in a field has changed the momentum of a particle that is not
\* reflected, and its new offset is not the one the returned momentum gives.
C15_Witness ==
    /\ push_pc = "pushed"
    /\ \E i, j \in 0 .. gpu.Nc - 1 :
          /\ PushedInside(i, j)
          /\ momentum_returned(i, j) # momentum_before(i, j)
          /\ AdvancedWith(momentum_midway(i, j), i, j)
          /\ ~AdvancedWith(momentum_returned(i, j), i, j)

-----------------------------------------------------------------------------
(* Bz *)

\* The fields move_smart_kernel holds for the particle (i, j) in the full
\* push at the place k of the history, after its interp9 calls and Bz = 0.
kernel_fields(k, i, j) ==
    fields_at(push_fields(k),
        RAdd(gpu.x_init[i][j],
             RDiv(RAdd(step_in.prev.x_offt[i][j],
                       step_log[push_before(k)].out.x_offt[i][j]), RInt(2))),
        RAdd(gpu.y_init[i][j],
             RDiv(RAdd(step_in.prev.y_offt[i][j],
                       step_log[push_before(k)].out.y_offt[i][j]), RInt(2))),
        gpu.grid_steps, gpu.grid_step_size)

\* C16: the Bz of every state step returns is zero everywhere, whatever the
\* Bz of prev, and the Bz of the Lorentz force in every full push of the step
\* is 0.
C16_BzZero ==
    /\ step_pc = "returned" => step_ret.Bz = zeros(gpu.grid_steps, gpu.grid_steps)
    /\ \A k \in { 2, 6, 10 } :
          k <= Len(step_log) =>
              /\ step_log[k].call = "move_smart"
              /\ \A i, j \in 0 .. gpu.Nc - 1 : kernel_fields(k, i, j).Bz = Zero

\* step has returned from a prev whose Bz is not zero, after three pushes.
C16_Witness ==
    /\ step_pc = "returned"
    /\ step_in.prev.Bz # zeros(gpu.grid_steps, gpu.grid_steps)
    /\ step_ret.Bz = zeros(gpu.grid_steps, gpu.grid_steps)
    /\ Len(step_log) >= 10

-----------------------------------------------------------------------------
(* What step leaves alone *)

\* What the object holds of the particle ensemble, the ion background and
\* the virtualization table.
ensemble(g) ==
    [ m |-> g.m, q |-> g.q, x_init |-> g.x_init, y_init |-> g.y_init, Nc |-> g.Nc,
      ro_initial |-> g.ro_initial, virt_params |-> g.virt_params ]

\* A step taken after init has returned keeps the ensemble.
EnsembleKept ==
    (main_pc = "loop" \/ main_pc = "in_step") =>
        /\ ensemble(gpu') = ensemble(gpu)
        /\ mem'.written \cap Range(mem'.solver) = {}

\* C17: once init has returned, no step of main or of GPUMonolith.step
\* changes m, q, x_init, y_init, the particle count, ro_initial or the
\* virtualization table of the object, and no array step has written is one
\* of the object's; what step writes are the new arrays it returns.
C17_StepLeavesEnsemble == [][EnsembleKept]_vars

C17_Witness ==
    /\ main_pc = "done"
    /\ Len(main_log) >= 2
    /\ state.x_offt # init_state(gpu).x_offt
    /\ state.ro # init_state(gpu).ro
    /\ gpu.ro_initial # zeros(gpu.grid_steps, gpu.grid_steps)
    /\ mem.written # {}

\* C18: no array step has written is an array of the previous state, and
\* no array of the state it returns is the storage of an array of the
\* previous state or of the object.
C18_ReturnedStateNotAliased ==
    main_pc \in { "loop", "in_step", "done", "raised" } =>
        /\ mem.written \cap (Range(mem.prev) \cup Range(mem.solver)) = {}
        /\ Range(mem.ret) \cap (Range(mem.prev) \cup Range(mem.solver)) = {}
        /\ Range(mem.state) \cap Range(mem.solver) = {}

C18_Witness ==
    /\ main_pc = "in_step"
    /\ step_pc = "returned"
    /\ Len(main_log) >= 2
    /\ DOMAIN mem.ret = Range(StateArrays)
    /\ DOMAIN mem.prev = Range(StateArrays)
    /\ Cardinality(mem.written) >= Len(StateArrays)
    /\ step_ret.Ex # step_in.prev.Ex


-----------------------------------------------------------------------------
(* gpu_functions.py: the kernels of the Ex, Ey, Bx, By solve *)

Fields == { "Ex", "Ey", "Bx", "By" }

\* a[i, j], and a after a[i, j] = v.
cell(a, i, j) == a[i][j]
stored(a, i, j, v) == [a EXCEPT ![i][j] = v]

\* numba.cuda.device_array((n, m)): memory nothing has been written to; it
\* holds whatever the device left there.
Garbage == { Zero, One }
device_array(n, m, left) == full(n, m, left)

\* aa = 2 + 4 * np.sin(np.arange(0, N) * np.pi / (2 * (N - 1)))**2, plus
\* grid_step_size**2 * subtraction_trick.
mix_aa(N, h, st, k) ==
    RAdd(RAdd(RInt(2), RMul(RInt(4), IF k = 0 THEN Zero ELSE RSq(lamb_sines[N][k]))),
         RMul(RMul(h, h), st))

\* alf = np.zeros((N, N + 1)); alf[:, i + 1] = 1 / (aa - alf[:, i]) for i in
\* range(1, N): the columns 0 and 1 stay zero.
RECURSIVE mix_alf_at(_, _)
mix_alf_at(aa, c) ==
    IF c <= 1 THEN Zero ELSE RDiv(One, RSub(aa, mix_alf_at(aa, c - 1)))
mix_alf(N, h, st) ==
    [k \in 0 .. N - 1 |-> [c \in 0 .. N |-> mix_alf_at(mix_aa(N, h, st, k), c)]]

\* mix_mul = grid_step_size**2 / (2 * N - 2)
mix_mul(N, h) == RDiv(RMul(h, h), RInt(2 * N - 2))

\* What GPUMonolith.__init__ of gpu_functions.py sets for the solve.
SolverConfig(grid_steps, window_width, xi_step_size, subtraction_trick) ==
    [ grid_steps |-> grid_steps, window_width |-> window_width,
      xi_step_size |-> xi_step_size,
      field_solver_subtraction_trick |-> subtraction_trick ]
grid_step_size_of(config) == RDiv(config.window_width, RInt(config.grid_steps))
FieldSolver(config) ==
    [ N |-> config.grid_steps,
      xi_step_size |-> config.xi_step_size,
      grid_step_size |-> grid_step_size_of(config),
      subtraction_trick |-> RInt(config.field_solver_subtraction_trick),
      alf |-> mix_alf(config.grid_steps, grid_step_size_of(config),
                      RInt(config.field_solver_subtraction_trick)),
      mul |-> mix_mul(config.grid_steps, grid_step_size_of(config)) ]

\* The device arrays of the solve: _combined_dct1_in, the scratchpads
\* _Ex_bet ... _By_bet and _combined_dct2_in, as slices for each field.
solver_arrays(N, left) ==
    [ dct1_in |-> [f \in Fields |-> device_array(N, 2 * N - 2, left)],
      bet |-> [f \in Fields |-> device_array(N, N, left)],
      dct2_in |-> [f \in Fields |-> device_array(N, 2 * N - 2, left)] ]

(* calculate_RHS_Ex_Ey_Bx_By_kernel *)

\* The central differences of a + b, zero at the edges.
central_x(a, b, i, j, N, h) ==
    IF 0 < i /\ i < N - 1
    THEN RDiv(RSub(RSub(RAdd(cell(a, i + 1, j), cell(b, i + 1, j)), cell(a, i - 1, j)),
                   cell(b, i - 1, j)),
              RMul(RInt(2), h))
    ELSE Zero
central_y(a, b, i, j, N, h) ==
    IF 0 < j /\ j < N - 1
    THEN RDiv(RSub(RSub(RAdd(cell(a, i, j + 1), cell(b, i, j + 1)), cell(a, i, j - 1)),
                   cell(b, i, j - 1)),
              RMul(RInt(2), h))
    ELSE Zero
backward_xi(a_prev, a, i, j, dxi) == RDiv(RSub(cell(a_prev, i, j), cell(a, i, j)), dxi)

Ex_rhs(sv, a, i, j) ==
    RNeg(RSub(RSub(central_x(a.ro, a.beam_ro, i, j, sv.N, sv.grid_step_size),
                   backward_xi(a.jx_prev, a.jx, i, j, sv.xi_step_size)),
              RMul(cell(a.Ex_sub, i, j), sv.subtraction_trick)))
Ey_rhs(sv, a, i, j) ==
    RNeg(RSub(RSub(central_y(a.ro, a.beam_ro, i, j, sv.N, sv.grid_step_size),
                   backward_xi(a.jy_prev, a.jy, i, j, sv.xi_step_size)),
              RMul(cell(a.Ey_sub, i, j), sv.subtraction_trick)))
Bx_rhs(sv, a, i, j) ==
    RAdd(RSub(central_y(a.jz, a.beam_ro, i, j, sv.N, sv.grid_step_size),
              backward_xi(a.jy_prev, a.jy, i, j, sv.xi_step_size)),
         RMul(cell(a.Bx_sub, i, j), sv.subtraction_trick))
By_rhs(sv, a, i, j) ==
    RNeg(RSub(RSub(central_x(a.jz, a.beam_ro, i, j, sv.N, sv.grid_step_size),
                   backward_xi(a.jx_prev, a.jx, i, j, sv.xi_step_size)),
              RMul(cell(a.By_sub, i, j), sv.subtraction_trick)))
rhs_value(f, sv, a, i, j) ==
    CASE f = "Ex" -> Ex_rhs(sv, a, i, j)
      [] f = "Ey" -> Ey_rhs(sv, a, i, j)
      [] f = "Bx" -> Bx_rhs(sv, a, i, j)
      [] f = "By" -> By_rhs(sv, a, i, j)

\* Ex and By are stored transposed: Ex_dct1_in[j, i], Ey_dct1_in[i, j].
rhs_row(f, i, j) == IF f \in { "Ex", "By" } THEN j ELSE i
rhs_column(f, i, j) == IF f \in { "Ex", "By" } THEN i ELSE j

\* 2 * N - 2 - ii with ii = max(i, 1)
mirror_column(N, c) == 2 * N - 2 - Max(c, 1)

\* The fields in the order the statements of the kernels take them.
solve_fields == << "Ex", "Ey", "Bx", "By" >>
field_number(f) == CHOOSE n \in 1 .. Len(solve_fields) : solve_fields[n] = f

\* The stores of one iteration of the kernel's loop in the order of its
\* statements, as <<field, mirrored>>: the four at [row, column], then the
\* four at [row, 2 * N - 2 - max(column, 1)].
rhs_stores ==
    << <<"Ex", FALSE>>, <<"Ey", FALSE>>, <<"Bx", FALSE>>, <<"By", FALSE>>,
       <<"Ex", TRUE>>, <<"Ey", TRUE>>, <<"Bx", TRUE>>, <<"By", TRUE>> >>
rhs_store_column(N, f, i, j, mirrored) ==
    IF mirrored THEN mirror_column(N, rhs_column(f, i, j)) ELSE rhs_column(f, i, j)

\* dct1_in after the store number n of the iteration for the cell
\* k = i * N + j; what it stores is computed from the kernel's arguments,
\* which no thread writes.
rhs_store(dct1_in, sv, a, k, n) ==
    Evaluated([dct1_in EXCEPT ![rhs_stores[n][1]] =
        stored(@, rhs_row(rhs_stores[n][1], k \div sv.N, k % sv.N),
               rhs_store_column(sv.N, rhs_stores[n][1], k \div sv.N, k % sv.N,
                                rhs_stores[n][2]),
               rhs_value(rhs_stores[n][1], sv, a, k \div sv.N, k % sv.N))])

(* mid_dct_transform *)

\* for j in range(1, N - 1):
\*     bet[i, j + 1] = (mul * dct1_out[j, i].real + bet[i, j]) * alf[i, j + 1]
RECURSIVE bet_swept(_, _, _, _, _, _)
bet_swept(bet, out, sv, i, j, last) ==
    IF j > last THEN bet
    ELSE bet_swept(stored(bet, i, j + 1,
                          RMul(RAdd(RMul(sv.mul, cell(out, j, i)), cell(bet, i, j)),
                               cell(sv.alf, i, j + 1))),
                   out, sv, i, j + 1, last)

\* bet[i, 0] = 0, the loop above, and dct2_in[N - 1, i] = 0, for each field.
sweep_forward(sv, out, m, i) ==
    [m EXCEPT !.bet = Evaluated([f \in Fields |->
                          bet_swept(stored(m.bet[f], i, 0, Zero), out[f], sv, i, 1,
                                    sv.N - 2)]),
              !.dct2_in = Evaluated([f \in Fields |->
                          stored(m.dct2_in[f], sv.N - 1, i, Zero)])]

\* dct2_in[j, i] = alf[i, j + 1] * dct2_in[j + 1, i] + bet[i, j + 1], the
\* statement of the field f: what it stores, and the memory after it.
row_value(f, sv, m, i, j) ==
    RAdd(RMul(cell(sv.alf, i, j + 1), cell(m.dct2_in[f], j + 1, i)), cell(m.bet[f], i, j + 1))
sweep_row(f, sv, m, i, j) ==
    [m EXCEPT !.dct2_in[f] = stored(@, j, i, row_value(f, sv, m, i, j))]

\* dct2_in[j, 2 * N - 2 - ii] = dct2_in[j, ii] with ii = max(i, 1), the
\* statement of the field f: the load of dct2_in[j, ii], and the store of
\* what was loaded.
sweep_read(f, m, i, j) == cell(m.dct2_in[f], j, Max(i, 1))
sweep_mirror(f, sv, m, i, j, reg) ==
    [m EXCEPT !.dct2_in[f] = stored(@, j, mirror_column(sv.N, i), reg)]

\* The kernel run by one thread at a time, column after column: the four
\* statements of a row, then the four that mirror it, each on the arrays of
\* its field.
row_alone(sv, m, i, j) ==
    [m EXCEPT !.dct2_in = Evaluated([f \in Fields |->
          sweep_row(f, sv, m, i, j).dct2_in[f]])]
mirror_alone(sv, m, i, j) ==
    [m EXCEPT !.dct2_in = Evaluated([f \in Fields |->
          sweep_mirror(f, sv, m, i, j, sweep_read(f, m, i, j)).dct2_in[f]])]
RECURSIVE rows_alone(_, _, _, _)
rows_alone(sv, m, i, j) ==
    IF j < 0 THEN m
    ELSE rows_alone(sv, mirror_alone(sv, row_alone(sv, m, i, j), i, j), i, j - 1)
RECURSIVE columns_in_turn(_, _, _, _)
columns_in_turn(sv, out, m, i) ==
    IF i >= sv.N THEN m
    ELSE columns_in_turn(sv, out, rows_alone(sv, sweep_forward(sv, out, m, i), i, sv.N - 2),
                         i + 1)

(* The launches *)

\* An N x N array a * i + b * j.
ramp(N, a, b) == [i \in 0 .. N - 1 |-> [j \in 0 .. N - 1 |-> RInt(a * i + b * j)]]

SolverConfigs == { SolverConfig(3, RInt(3), Half, st) : st \in { 0, 1 } }

RHSArguments(N) ==
    { [ kernel |-> "calculate_RHS_Ex_Ey_Bx_By_kernel",
        Ex_sub |-> ramp(N, 1, 1), Ey_sub |-> ramp(N, 1, 1),
        Bx_sub |-> ramp(N, 1, 1), By_sub |-> ramp(N, 1, 1),
        beam_ro |-> zeros(N, N), ro |-> ramp(N, 1, 2),
        jx |-> ramp(N, 1, 0), jx_prev |-> zeros(N, N),
        jy |-> ramp(N, 0, 1), jy_prev |-> zeros(N, N), jz |-> ramp(N, 2, 1) ],
      [ kernel |-> "calculate_RHS_Ex_Ey_Bx_By_kernel",
        Ex_sub |-> full(N, N, One), Ey_sub |-> full(N, N, One),
        Bx_sub |-> full(N, N, One), By_sub |-> full(N, N, One),
        beam_ro |-> full(N, N, One), ro |-> full(N, N, One),
        jx |-> full(N, N, One), jx_prev |-> full(N, N, One),
        jy |-> full(N, N, One), jy_prev |-> full(N, N, One), jz |-> full(N, N, One) ] }

Spectra(N) ==
    { [ Ex |-> ramp(N, 1, 2), Ey |-> ramp(N, 2, 1), Bx |-> ramp(N, 1, 1), By |-> ramp(N, 0, 3) ],
      [ f \in Fields |-> full(N, N, One) ] }

\* One run launches calculate_RHS_Ex_Ey_Bx_By_kernel at most MaxLaunches
\* times and mid_dct_transform at most MaxSolves times.
MaxLaunches == 1
MaxSolves == 1

\* The threads of a launch: cfg = (19, 192) of the source gives 3648 of them
\* to the N * N cells or the N columns of a grid, and a thread takes the
\* indices index, index + stride, ... of them. The launches here have
\* 1 .. MaxSolverThreads threads for the grid of SolverConfigs.
MaxSolverThreads == 2
SolverThreads == 1 .. MaxSolverThreads

\* GPUMonolith.__init__ has returned.
InitFieldSolver ==
    /\ IdlePlasma
    /\ IdleDeposit
    /\ IdlePush
    /\ IdleStep
    /\ IdleInit
    /\ IdleCall
    /\ fs_pc = "idle"
    /\ \E config \in SolverConfigs, left \in Garbage :
          /\ fs_solver = FieldSolver(config)
          /\ fs_mem = solver_arrays(config.grid_steps, left)
    /\ fs_args = NoTable
    /\ fs_threads = <<>>
    /\ fs_solves = 0

\* A thread at the first store of its iteration k of range(index, N * N,
\* stride), or past its loop.
rhs_thread(k, size) ==
    [ pc |-> IF k < size THEN "store" ELSE "done", k |-> k, n |-> 1 ]

\* The thread after a store: at the next store of the iteration, or at the
\* next iteration.
rhs_thread_after(th, by, size) ==
    IF th.n < Len(rhs_stores) THEN [th EXCEPT !.n = th.n + 1]
    ELSE rhs_thread(th.k + by, size)

\* calculate_RHS_Ex_Ey_Bx_By: the launch; the thread index starts at the
\* iteration k = index.
RHSLaunch ==
    /\ fs_pc \in { "idle", "synchronized" }
    /\ fs_solves < MaxLaunches
    /\ \E a \in RHSArguments(fs_solver.N) : fs_args' = a
    /\ \E threads \in SolverThreads :
          fs_threads' = [index \in 0 .. threads - 1 |->
                            rhs_thread(index, fs_solver.N * fs_solver.N)]
    /\ fs_pc' = "rhs"
    /\ UNCHANGED <<fs_solver, fs_mem, fs_solves>>
    /\ UNCHANGED <<plasmaVars, depositVars, pushVars, stepVars, initVars, callVars>>

\* A thread makes the next store of its iteration.
RHSThread ==
    /\ fs_pc = "rhs"
    /\ \E t \in DOMAIN fs_threads :
          /\ fs_threads[t].pc = "store"
          /\ fs_mem' = [fs_mem EXCEPT !.dct1_in =
                           rhs_store(@, fs_solver, fs_args, fs_threads[t].k, fs_threads[t].n)]
          /\ fs_threads' = [fs_threads EXCEPT ![t] =
                               rhs_thread_after(@, ALen(fs_threads),
                                                fs_solver.N * fs_solver.N)]
    /\ UNCHANGED <<fs_pc, fs_solver, fs_args, fs_solves>>
    /\ UNCHANGED <<plasmaVars, depositVars, pushVars, stepVars, initVars, callVars>>

\* numba.cuda.synchronize()
Synchronize ==
    /\ fs_pc \in { "rhs", "sweep" }
    /\ \A k \in DOMAIN fs_threads : fs_threads[k].pc = "done"
    /\ fs_pc' = "synchronized"
    /\ fs_solves' = fs_solves + 1
    /\ UNCHANGED <<fs_solver, fs_args, fs_mem, fs_threads>>
    /\ UNCHANGED <<plasmaVars, depositVars, pushVars, stepVars, initVars, callVars>>

NextRHS == RHSLaunch \/ RHSThread \/ Synchronize

SpecRHS == InitFieldSolver /\ [][NextRHS]_vars

\* A thread at the first statement of its iteration i of range(index, N,
\* stride), or past its loop; j is the row of the backward loop, n the
\* number of the field whose statement is next, reg what the thread has
\* loaded for its next store.
sweep_thread(i, N) ==
    [ pc |-> IF i < N THEN "forward" ELSE "done", i |-> i, j |-> N - 2, n |-> 1,
      reg |-> NoTable ]

\* The thread after the statement of a field in the row th.j: at the
\* statement of the next field, or at `then` with the first field.
next_field(th, then) ==
    IF th.n < Len(solve_fields) THEN [th EXCEPT !.n = th.n + 1]
    ELSE [th EXCEPT !.pc = then, !.n = 1]

\* The thread after the store of a mirror statement: at the load of the
\* next field's, at the next row of the backward loop, or at the next
\* iteration.
sweep_thread_after(th, by, N) ==
    IF th.n < Len(solve_fields) THEN [th EXCEPT !.pc = "read", !.n = th.n + 1, !.reg = NoTable]
    ELSE IF th.j > 0 THEN [th EXCEPT !.pc = "row", !.j = th.j - 1, !.n = 1, !.reg = NoTable]
    ELSE sweep_thread(th.i + by, N)

\* calculate_Ex_Ey_Bx_By_2: the launch of mid_dct_transform on the output of
\* the first transform; the thread index starts at the column i = index.
\* fs_args keeps what bet and dct2_in held at the launch.
SweepLaunch ==
    /\ fs_pc \in { "idle", "synchronized" }
    /\ fs_solves < MaxSolves
    /\ \E out \in Spectra(fs_solver.N) :
          fs_args' = [ kernel |-> "mid_dct_transform", dct1_out |-> out, held |-> fs_mem ]
    /\ \E threads \in SolverThreads :
          fs_threads' = [index \in 0 .. threads - 1 |-> sweep_thread(index, fs_solver.N)]
    /\ fs_pc' = "sweep"
    /\ UNCHANGED <<fs_solver, fs_mem, fs_solves>>
    /\ UNCHANGED <<plasmaVars, depositVars, pushVars, stepVars, initVars, callVars>>

\* The statements before the backward loop: they load and store cells of
\* the row i of bet and the cell dct2_in[N - 1, i], which no other
\* iteration touches.
SweepForward ==
    /\ fs_pc = "sweep"
    /\ \E t \in DOMAIN fs_threads :
          /\ fs_threads[t].pc = "forward"
          /\ fs_mem' = sweep_forward(fs_solver, fs_args.dct1_out, fs_mem, fs_threads[t].i)
          /\ fs_threads' = [fs_threads EXCEPT ![t].pc = "row"]
    /\ UNCHANGED <<fs_pc, fs_solver, fs_args, fs_solves>>
    /\ UNCHANGED <<plasmaVars, depositVars, pushVars, stepVars, initVars, callVars>>

\* One of the four statements dct2_in[j, i] = ...: its loads are of the
\* thread's own column.
SweepRow ==
    /\ fs_pc = "sweep"
    /\ \E t \in DOMAIN fs_threads :
          /\ fs_threads[t].pc = "row"
          /\ fs_mem' = sweep_row(solve_fields[fs_threads[t].n], fs_solver, fs_mem,
                                 fs_threads[t].i, fs_threads[t].j)
          /\ fs_threads' = [fs_threads EXCEPT ![t] = next_field(@, "read")]
    /\ UNCHANGED <<fs_pc, fs_solver, fs_args, fs_solves>>
    /\ UNCHANGED <<plasmaVars, depositVars, pushVars, stepVars, initVars, callVars>>

\* The load of one of the four statements dct2_in[j, 2 * N - 2 - ii] = ...
SweepRead ==
    /\ fs_pc = "sweep"
    /\ \E t \in DOMAIN fs_threads :
          /\ fs_threads[t].pc = "read"
          /\ fs_threads' = [fs_threads EXCEPT
                                ![t].pc = "mirror",
                                ![t].reg = sweep_read(solve_fields[fs_threads[t].n], fs_mem,
                                                      fs_threads[t].i, fs_threads[t].j)]
    /\ UNCHANGED <<fs_pc, fs_solver, fs_args, fs_mem, fs_solves>>
    /\ UNCHANGED <<plasmaVars, depositVars, pushVars, stepVars, initVars, callVars>>

\* The store of the statement whose load was last.
SweepMirror ==
    /\ fs_pc = "sweep"
    /\ \E t \in DOMAIN fs_threads :
          /\ fs_threads[t].pc = "mirror"
          /\ fs_mem' = sweep_mirror(solve_fields[fs_threads[t].n], fs_solver, fs_mem,
                                    fs_threads[t].i, fs_threads[t].j, fs_threads[t].reg)
          /\ fs_threads' = [fs_threads EXCEPT ![t] =
                               sweep_thread_after(@, ALen(fs_threads), fs_solver.N)]
    /\ UNCHANGED <<fs_pc, fs_solver, fs_args, fs_solves>>
    /\ UNCHANGED <<plasmaVars, depositVars, pushVars, stepVars, initVars, callVars>>

NextSweep ==
    \/ SweepLaunch
    \/ SweepForward
    \/ SweepRow
    \/ SweepRead
    \/ SweepMirror
    \/ Synchronize

SpecSweep == InitFieldSolver /\ [][NextSweep]_vars

Swept == fs_pc = "synchronized" /\ fs_args.kernel = "mid_dct_transform"

\* C11: after mid_dct_transform the second-transform inputs are what the
\* threads leave when they run one at a time, whatever the interleaving of
\* the column threads has been.
C11_SweepSameForEveryInterleaving ==
    Swept => fs_mem = columns_in_turn(fs_solver, fs_args.dct1_out, fs_args.held, 0)

\* C12: after calculate_RHS_Ex_Ey_Bx_By_kernel every row of every field's
\* first-transform input is mirrored: in[r, 2N-2-c] = in[r, c] for c in
\* 1 .. N-2, for every schedule of the threads.
C12_RowsMirrored ==
    (fs_pc = "synchronized" /\ fs_args.kernel = "calculate_RHS_Ex_Ey_Bx_By_kernel") =>
        \A f \in Fields : \A r \in 0 .. fs_solver.N - 1 : \A c \in 1 .. fs_solver.N - 2 :
            cell(fs_mem.dct1_in[f], r, 2 * fs_solver.N - 2 - c) = cell(fs_mem.dct1_in[f], r, c)

\* C14: after every mid_dct_transform, the first and the later ones, each
\* column of the second-transform input is zero at the rows 0 and N - 1.
C14_EndsZero ==
    Swept =>
        \A f \in Fields : \A i \in 0 .. fs_solver.N - 1 :
            /\ cell(fs_mem.dct2_in[f], 0, i) = Zero
            /\ cell(fs_mem.dct2_in[f], fs_solver.N - 1, i) = Zero

\* What no schedule changes: the columns 0 .. N-1 of the second-transform
\* inputs, each written by its own thread only, with the row N - 1 zero; and
\* the columns 0 .. N-1 of the first-transform inputs.
OwnColumnsAsInTurn ==
    Swept =>
        \A f \in Fields : \A j \in 0 .. fs_solver.N - 1 : \A i \in 0 .. fs_solver.N - 1 :
            /\ cell(fs_mem.dct2_in[f], j, i) =
                   cell(columns_in_turn(fs_solver, fs_args.dct1_out, fs_args.held, 0).dct2_in[f], j, i)
            /\ cell(fs_mem.dct2_in[f], fs_solver.N - 1, i) = Zero
OwnCellsHoldRHS ==
    (fs_pc = "synchronized" /\ fs_args.kernel = "calculate_RHS_Ex_Ey_Bx_By_kernel") =>
        \A f \in Fields : \A i \in 0 .. fs_solver.N - 1 : \A j \in 0 .. fs_solver.N - 1 :
            cell(fs_mem.dct1_in[f], rhs_row(f, i, j), rhs_column(f, i, j)) =
                rhs_value(f, fs_solver, fs_args, i, j)

-----------------------------------------------------------------------------
(* init and the assertions of GPUMonolith.__init__ *)

\* The particle attribute arrays GPUMonolith.__init__ is given.
ParticleArrays == { "x_init", "y_init", "x_offt", "y_offt", "px", "py", "pz", "m", "q" }

\* a.shape of a 2-D array, and a.size of an array of that shape.
shape_of(a) == <<ALen(a), IF ALen(a) = 0 THEN 0 ELSE ALen(a[0])>>
size_of(shape) == shape[1] * shape[2]
shapes_of(pl) == [a \in ParticleArrays |-> shape_of(pl[a])]

\* Nc = int(sqrt(pl_q.size)) and the four assertions on the sizes.
Nc_of(shapes) == ISqrt(size_of(shapes.q))
sizes_asserted(shapes) ==
    /\ Nc_of(shapes) * Nc_of(shapes) = size_of(shapes.x_init)
    /\ size_of(shapes.x_init) = size_of(shapes.y_init)
    /\ Nc_of(shapes) * Nc_of(shapes) = size_of(shapes.x_offt)
    /\ size_of(shapes.x_offt) = size_of(shapes.y_offt)
    /\ Nc_of(shapes) * Nc_of(shapes) = size_of(shapes.px)
    /\ size_of(shapes.px) = size_of(shapes.py)
    /\ size_of(shapes.py) = size_of(shapes.pz)
    /\ Nc_of(shapes) * Nc_of(shapes) = size_of(shapes.m)
    /\ size_of(shapes.m) = size_of(shapes.q)

\* All the assertions of GPUMonolith.__init__ pass.
constructor_asserted(config, shapes) == sizes_asserted(shapes) /\ ConfigAccepted(config)

\* The assertions without the one on grid_steps.
constructor_asserted_any_grid(config, shapes) ==
    /\ sizes_asserted(shapes)
    /\ config.reflect_padding_steps > config.plasma_coarseness + 1

\* plasma_make raises IndexError when the coarse lattice is empty
\* (np.arange(steps // (coarseness * 2)) has no element): at
\* coarse_grid[i_next_in_x] when the fine lattice has a point, and at
\* coarse_grid[0] when the fine lattice is empty too.
plasma_make_raises(steps, coarseness, fineness) ==
    steps \div (coarseness * 2) < 1

\* init's argument for plasma_make's steps.
plasma_steps(config) == config.grid_steps - config.plasma_padding_steps * 2

InitConfigs ==
    { Config(grid_steps, One, Half, 1, reflect_padding_steps, plasma_padding_steps,
             coarseness, fineness) :
        grid_steps \in { 6, 7 }, reflect_padding_steps \in { 3, 4 },
        plasma_padding_steps \in { 1, 2, 3 }, coarseness \in { 1, 2 }, fineness \in { 1, 2 } }

\* main has called init(config).
InitCalled ==
    /\ IdleSweep
    /\ IdleCall
    /\ IdlePlasma
    /\ IdleDeposit
    /\ IdlePush
    /\ main_pc = "init"
    /\ xi_i = 0
    /\ \E b \in MainBeams : run = Run(1, b, 1)
    /\ state = NoTable
    /\ step_pc = "idle"
    /\ step_in = NoTable
    /\ step_loc = NoTable
    /\ step_ret = NoTable
    /\ step_log = <<>>
    /\ main_log = <<>>
    /\ mem = NoTable
    /\ init_pc = "called"
    /\ \E config \in InitConfigs : init_args = [ config |-> config ]
    /\ init_raised = ""

\* init: plasma_make(config.grid_steps - config.plasma_padding_steps * 2, ...)
InitPlasmaMake ==
    /\ init_pc = "called"
    /\ IF plasma_make_raises(plasma_steps(init_args.config),
                             init_args.config.plasma_coarseness,
                             init_args.config.plasma_fineness)
       THEN /\ init_raised' = "IndexError"
            /\ init_pc' = "raised"
            /\ UNCHANGED virt_params
       ELSE /\ virt_params' = plasma_make(plasma_steps(init_args.config),
                                          init_args.config.grid_step_size,
                                          init_args.config.plasma_coarseness,
                                          init_args.config.plasma_fineness)
            /\ init_pc' = "plasma_made"
            /\ UNCHANGED init_raised
    /\ UNCHANGED <<pm_pc, pm_args, init_args>>
    /\ UNCHANGED <<depositVars, pushVars, stepVars, sweepVars, callVars>>

\* init: gpu = GPUMonolith(config, x_init, ..., virt_params) without the
\* assertion on grid_steps.
InitConstructAnyGrid ==
    /\ init_pc = "plasma_made"
    /\ IF constructor_asserted_any_grid(init_args.config, shapes_of(virt_params))
       THEN /\ gpu' = GPUMonolith(init_args.config, virt_params)
            /\ dep_pc' = "constructed"
            /\ init_pc' = "constructed"
            /\ UNCHANGED init_raised
       ELSE /\ init_raised' = "AssertionError"
            /\ init_pc' = "raised"
            /\ UNCHANGED <<gpu, dep_pc>>
    /\ UNCHANGED <<dep_c, dep_out, kern_threads, init_args>>
    /\ UNCHANGED <<plasmaVars, pushVars, stepVars, sweepVars, callVars>>

\* init: gpu = GPUMonolith(config, x_init, ..., virt_params) and gpu.load(m, q)
InitConstruct ==
    /\ init_pc = "plasma_made"
    /\ IF constructor_asserted(init_args.config, shapes_of(virt_params))
       THEN /\ gpu' = GPUMonolith(init_args.config, virt_params)
            /\ dep_pc' = "constructed"
            /\ init_pc' = "constructed"
            /\ UNCHANGED init_raised
       ELSE /\ init_raised' = "AssertionError"
            /\ init_pc' = "raised"
            /\ UNCHANGED <<gpu, dep_pc>>
    /\ UNCHANGED <<dep_c, dep_out, kern_threads, init_args>>
    /\ UNCHANGED <<plasmaVars, pushVars, stepVars, sweepVars, callVars>>

\* init up to its return, and main up to its first call of step.
NextInit ==
    \/ InitPlasmaMake
    \/ InitConstruct
    \/ InitialDeposition
    \/ InitReturn
    \/ MainCall

SpecInit == InitCalled /\ [][NextInit]_vars

\* The configurations the claim speaks of.
ViolatesInvariant(config) ==
    \/ config.grid_steps % 2 = 0
    \/ config.reflect_padding_steps <= config.plasma_coarseness + 1

InitOver == init_pc \in { "raised", "constructed" }

\* C19 (as stated): for every configuration with an even grid_steps or with
\* reflect_padding_steps <= plasma_coarseness + 1, init ends with an
\* AssertionError, and no step has been called.
C19_InvalidConfigAssertionError ==
    (InitOver /\ ViolatesInvariant(init_args.config)) =>
        /\ init_pc = "raised"
        /\ init_raised = "AssertionError"
        /\ main_pc = "init"
        /\ main_log = <<>>

\* C19 (amended): for every such configuration init raises before any step
\* is called: the IndexError of plasma_make when the coarse plasma lattice is
\* empty, the AssertionError of GPUMonolith.__init__ otherwise.
C19_InvalidConfigFailsFast ==
    (InitOver /\ ViolatesInvariant(init_args.config)) =>
        /\ init_pc = "raised"
        /\ init_raised =
              (IF plasma_make_raises(plasma_steps(init_args.config),
                                     init_args.config.plasma_coarseness,
                                     init_args.config.plasma_fineness)
               THEN "IndexError" ELSE "AssertionError")
        /\ main_pc = "init"
        /\ step_pc = "idle"
        /\ main_log = <<>>

C19_Witness ==
    /\ init_pc = "raised"
    /\ init_raised = "AssertionError"
    /\ init_args.config.grid_steps % 2 = 0
    /\ init_args.config.reflect_padding_steps > init_args.config.plasma_coarseness + 1
    /\ virt_params # NoTable
    /\ main_log = <<>>

\* A valid configuration goes on to the first step.
InitValidReachesStep ==
    /\ main_pc = "in_step"
    /\ step_pc = "called"
    /\ ~ViolatesInvariant(init_args.config)

(* GPUMonolith.__init__ on any arrays *)

Shapes == { <<2, 2>>, <<1, 4>>, <<4, 1>>, <<3, 3>>, <<2, 3>> }

ConstructConfigs ==
    { Config(7, One, Half, 1, 3, 2, 1, 1), Config(6, One, Half, 1, 3, 2, 1, 1) }

\* GPUMonolith(config, pl_x_init, ..., pl_q, virt_params) is called with
\* arrays of one shape, but for one array that may have another.
ConstructCalled ==
    /\ IdleSweep
    /\ IdleCall
    /\ IdlePlasma
    /\ IdleDeposit
    /\ IdlePush
    /\ IdleStep
    /\ init_pc = "construct"
    /\ \E config \in ConstructConfigs, shape \in Shapes, other \in Shapes, a \in ParticleArrays :
          init_args = [ config |-> config,
                        shapes |-> [b \in ParticleArrays |-> IF b = a THEN other ELSE shape] ]
    /\ init_raised = ""

\* The assertions of the constructor.
Construct ==
    /\ init_pc = "construct"
    /\ IF constructor_asserted(init_args.config, init_args.shapes)
       THEN /\ init_pc' = "constructed"
            /\ UNCHANGED init_raised
       ELSE /\ init_raised' = "AssertionError"
            /\ init_pc' = "raised"
    /\ UNCHANGED init_args
    /\ UNCHANGED <<plasmaVars, depositVars, pushVars, stepVars, sweepVars, callVars>>

NextConstruct == Construct

SpecConstruct == ConstructCalled /\ [][NextConstruct]_vars

\* C20: the constructor raises AssertionError whenever two of the particle
\* attribute arrays differ in shape or in size, arrays of equal element
\* counts and different shapes included.
C20_MismatchedShapesRaise ==
    (init_pc \in { "constructed", "raised" }
       /\ \E a \in ParticleArrays, b \in ParticleArrays : init_args.shapes[a] # init_args.shapes[b]) =>
        (init_pc = "raised" /\ init_raised = "AssertionError")

\* What the assertions do give: arrays of different sizes raise.
MismatchedSizesRaise ==
    (init_pc \in { "constructed", "raised" }
       /\ \E a \in ParticleArrays, b \in ParticleArrays :
             size_of(init_args.shapes[a]) # size_of(init_args.shapes[b])) =>
        (init_pc = "raised" /\ init_raised = "AssertionError")

-----------------------------------------------------------------------------
(* initial_deposition on any momenta *)

\* np.array_equiv(a, 0)
array_equiv_zero(a) == \A i \in DOMAIN a : \A j \in DOMAIN a[i] : a[i][j] = Zero

\* The assertions on px and py only.
momenta_asserted_but_pz(c) ==
    /\ array_equiv_zero(c.px)
    /\ array_equiv_zero(c.py)

\* The three assertions of initial_deposition.
momenta_asserted(c) ==
    /\ array_equiv_zero(c.px)
    /\ array_equiv_zero(c.py)
    /\ array_equiv_zero(c.pz)

\* self._ro_initial after the deposit of the plasma c.
initial_deposition_of(g, c) ==
    ArrayNeg(deposit(zeros(g.grid_steps, g.grid_steps), g.grid_steps, g.grid_step_size,
                     c, g.virt_params, g.virtplasma_smallness_factor).ro)

\* gpu.initial_deposition(...) of a plasma with one perturbed particle: the
\* assertions first, then the deposit and the assignment of self._ro_initial.
InitialDepositionOf ==
    /\ dep_pc = "constructed"
    /\ \E ki, kj \in 0 .. gpu.Nc - 1, dx \in OffsetValues, p \in MomentumValues :
          LET c == Perturbed(gpu, ki, kj, dx, Zero, p)
          IN  /\ AllStencilsInGrid(gpu.grid_steps, gpu.grid_step_size,
                                   gpu.virt_params, c,
                                   gpu.virtplasma_smallness_factor)
              /\ dep_c' = c
              /\ IF momenta_asserted(c)
                 THEN /\ gpu' = [gpu EXCEPT !.ro_initial = initial_deposition_of(gpu, c)]
                      /\ dep_pc' = "ready"
                      /\ UNCHANGED init_raised
                 ELSE /\ init_raised' = "AssertionError"
                      /\ dep_pc' = "raised"
                      /\ UNCHANGED gpu
    /\ UNCHANGED <<dep_out, kern_threads, init_pc, init_args>>
    /\ UNCHANGED <<plasmaVars, pushVars, stepVars, sweepVars, callVars>>

NextInitialDeposition == InitialDepositionOf

SpecInitialDeposition == InitDeposit /\ [][NextInitialDeposition]_vars

SomeMomentum(c) ==
    \E ki, kj \in DOMAIN c.px :
        c.px[ki][kj] # Zero \/ c.py[ki][kj] # Zero \/ c.pz[ki][kj] # Zero

\* C21: when a momentum component of a particle given to initial_deposition
\* is not zero, the call raises AssertionError and ro_initial is still the
\* zeros of the constructor.
C21_MomentumRaisesAndKeepsBackground ==
    (dep_pc \in { "ready", "raised" } /\ SomeMomentum(dep_c)) =>
        /\ dep_pc = "raised"
        /\ init_raised = "AssertionError"
        /\ gpu.ro_initial = zeros(gpu.grid_steps, gpu.grid_steps)

C21_Witness ==
    /\ dep_pc = "raised"
    /\ init_raised = "AssertionError"
    /\ array_equiv_zero(dep_c.px)
    /\ array_equiv_zero(dep_c.py)
    /\ ~array_equiv_zero(dep_c.pz)
    /\ gpu.Nc > 1
    /\ gpu.ro_initial = zeros(gpu.grid_steps, gpu.grid_steps)

\* Without momenta the call assigns the ion background.
BackgroundAssigned ==
    /\ dep_pc = "ready"
    /\ ~SomeMomentum(dep_c)
    /\ gpu.ro_initial # zeros(gpu.grid_steps, gpu.grid_steps)

-----------------------------------------------------------------------------
(* DirichletSolver.solve and MixedSolver.solve called alone *)

\* assert rhs.shape[0] == rhs.shape[1] == N - 2
solve_asserted(solver, rhs) ==
    /\ shape_of(rhs)[1] = shape_of(rhs)[2]
    /\ shape_of(rhs)[2] = solver.N - 2

\* An r x c array of the values a * i + b * j + 1.
rect(r, c, a, b) ==
    Evaluated([i \in 0 .. r - 1 |->
        Evaluated([j \in 0 .. c - 1 |-> RInt(a * i + b * j + 1)])])

\* The grid sizes the solvers are constructed for.
SolveSizes == { 4, 5 }

\* Right-hand sides of every shape from (N-3) x (N-3) to (N-1) x (N-1).
SolveShaped(N) ==
    { [ from |-> "caller", rhs |-> rect(r, c, a, 1) ] :
          r \in N - 3 .. N - 1, c \in N - 3 .. N - 1, a \in { 0, 2 } }

\* What calculate_RHS_Ez and calculate_RHS_Ex_Ey_Bx_By return for N x N
\* arrays.
SolveProduced(N) ==
    LET F == uniform_fields(N, <<1, 4>>)
        four == calculate_RHS_Ex_Ey_Bx_By(One, Half, One, F, rect(N, N, 1, 0),
                    rect(N, N, 1, 2), rect(N, N, 2, 1), rect(N, N, 0, 3),
                    rect(N, N, 1, 1), zeros(N, N), rect(N, N, 1, 0))
    IN  { [ from |-> "calculate_RHS_Ez",
            rhs |-> calculate_RHS_Ez(One, rect(N, N, 2, 1), rect(N, N, 0, 3)) ] }
        \cup { [ from |-> "calculate_RHS_Ex_Ey_Bx_By", rhs |-> four[f] ] :
                   f \in { "Ex", "Ey", "Bx", "By" } }

SolveCalls ==
    { [ fn |-> fn, N |-> N, from |-> a.from, rhs |-> a.rhs ] :
          fn \in { "DirichletSolver.solve", "MixedSolver.solve" },
          N \in SolveSizes, a \in UNION { SolveShaped(M) \cup SolveProduced(M) : M \in SolveSizes } }

SolveCalled ==
    /\ IdlePlasma
    /\ IdleDeposit
    /\ IdlePush
    /\ IdleStep
    /\ IdleSweep
    /\ IdleInit
    /\ call_pc = "called"
    /\ call_args \in SolveCalls
    /\ call_ret = NoTable

\* DirichletSolver(N, h).solve(rhs)
DirichletSolve ==
    /\ call_pc = "called"
    /\ call_args.fn = "DirichletSolver.solve"
    /\ LET solver == DirichletSolver(call_args.N, One)
       IN  IF solve_asserted(solver, call_args.rhs)
           THEN /\ call_ret' = dirichlet_solve(solver, call_args.rhs)
                /\ call_pc' = "returned"
           ELSE /\ call_ret' = "AssertionError"
                /\ call_pc' = "raised"
    /\ UNCHANGED call_args
    /\ UNCHANGED <<plasmaVars, depositVars, pushVars, stepVars, sweepVars, initVars>>

\* MixedSolver(N, h, subtraction_trick).solve(rhs)
MixedSolve ==
    /\ call_pc = "called"
    /\ call_args.fn = "MixedSolver.solve"
    /\ LET solver == MixedSolver(call_args.N, One, One)
       IN  IF solve_asserted(solver, call_args.rhs)
           THEN /\ call_ret' = mixed_solve(solver, call_args.rhs)
                /\ call_pc' = "returned"
           ELSE /\ call_ret' = "AssertionError"
                /\ call_pc' = "raised"
    /\ UNCHANGED call_args
    /\ UNCHANGED <<plasmaVars, depositVars, pushVars, stepVars, sweepVars, initVars>>

NextSolve == DirichletSolve \/ MixedSolve

SpecSolve == SolveCalled /\ [][NextSolve]_vars

\* The cells of rows and columns 0 and n - 1 of the n x n array a.
perimeter(a) ==
    { a[i][j] : i \in { 0, ALen(a) - 1 }, j \in DOMAIN a[0] }
        \cup { a[i][j] : i \in DOMAIN a, j \in { 0, ALen(a) - 1 } }

\* C22: solve returns exactly for the (N-2) x (N-2) right-hand sides, among
\* them those calculate_RHS_Ez and calculate_RHS_Ex_Ey_Bx_By make of N x N
\* arrays, and raises for every other shape; what it returns is N x N with
\* zero in every cell of rows and columns 0 and N-1.
C22_SolveShapeAndZeroPerimeter ==
    call_pc # "called" =>
        /\ call_pc = "returned"
               <=> shape_of(call_args.rhs) = <<call_args.N - 2, call_args.N - 2>>
        /\ shape_of(call_args.rhs) = <<call_args.N - 2, call_args.N - 2>>
               <=> \E a \in SolveProduced(call_args.N) :
                       shape_of(a.rhs) = shape_of(call_args.rhs)
        /\ call_pc = "returned" =>
               /\ shape_of(call_ret) = <<call_args.N, call_args.N>>
               /\ perimeter(call_ret) = { Zero }

C22_Witness ==
    /\ call_pc = "returned"
    /\ call_args.fn = "MixedSolver.solve"
    /\ call_args.from = "calculate_RHS_Ex_Ey_Bx_By"
    /\ call_args.N = 5
    /\ \E i, j \in 1 .. 3 : call_ret[i][j] # Zero

\* A right-hand side of another shape raises.
SolveRaised ==
    /\ call_pc = "raised"
    /\ call_args.fn = "DirichletSolver.solve"
    /\ shape_of(call_args.rhs) = <<call_args.N - 2, call_args.N - 1>>

-----------------------------------------------------------------------------
(* deposit of the initial plasma after initial_deposition *)

\* The plasma c is the one load and initial_deposition were given: the
\* offsets and the momenta plasma_make returned, all zero.
Unperturbed(c) ==
    /\ c.x_offt = gpu.virt_params.x_offt
    /\ c.y_offt = gpu.virt_params.y_offt
    /\ array_equiv_zero(c.x_offt)
    /\ array_equiv_zero(c.y_offt)
    /\ ~SomeMomentum(c)

\* C23: after initial_deposition, deposit of the initial plasma (zero offsets,
\* zero momenta) returns ro, jx, jy and jz zero in every cell of the grid.
C23_InitialPlasmaDepositsZero ==
    (dep_pc = "deposited" /\ Unperturbed(dep_c)) =>
        /\ array_equiv_zero(dep_out.ro)
        /\ array_equiv_zero(dep_out.jx)
        /\ array_equiv_zero(dep_out.jy)
        /\ array_equiv_zero(dep_out.jz)
        /\ shape_of(dep_out.ro) = <<gpu.grid_steps, gpu.grid_steps>>

C23_Witness ==
    /\ dep_pc = "deposited"
    /\ Unperturbed(dep_c)
    /\ ~array_equiv_zero(gpu.ro_initial)
    /\ gpu.Nc > 1
    /\ array_equiv_zero(dep_out.ro)

\* A displaced particle leaves a charge density.
DisplacedDepositsCharge ==
    /\ dep_pc = "deposited"
    /\ ~array_equiv_zero(dep_c.x_offt)
    /\ ~array_equiv_zero(dep_out.ro)

-----------------------------------------------------------------------------
(* The fields of the three full pushes of a step *)

\* (a[i, j] + b[i, j]) / 2 in every cell.
cell_means(a, b) ==
    Evaluated([i \in DOMAIN a |->
        Evaluated([j \in DOMAIN a[i] |-> RDiv(RAdd(a[i][j], b[i][j]), RInt(2))])])

\* The means, field by field, of the fields solved and those of prev.
means_with_prev(solved) ==
    [ f \in { "Ex", "Ey", "Ez", "Bx", "By" } |-> cell_means(solved[f], step_in.prev[f]) ]

\* What the solves before the call at the place k of a step returned:
\* calculate_Ex_Ey_Bx_By at k - 2 and calculate_Ez at k - 1.
solved_before(k) == step_log[k - 1].out @@ step_log[k - 2].out

\* C24: the first full push of a step is made with the fields of prev as they
\* are; the second and the third are made with, in every cell and for each
\* of Ex, Ey, Ez, Bx, By, the mean of the field the solve just before the
\* push returned and the field of prev.
C24_PushesUseMeansWithPrev ==
    /\ Len(step_log) >= 2 =>
           step_log[2].out =
               pushed_from_prev(step_log[1].out,
                   [ f \in { "Ex", "Ey", "Ez", "Bx", "By" } |-> step_in.prev[f] ])
    /\ \A k \in { 6, 10 } :
           Len(step_log) >= k =>
               step_log[k].out =
                   pushed_from_prev(step_log[k - 4].out,
                                    means_with_prev(solved_before(k)))

\* The third push is done; the fields of the two solves differ, and so do
\* the means the second and the third push were given; the third push made
\* with the mean of its solve and the means of the second is another.
C24_Witness ==
    /\ Len(step_log) >= 10
    /\ solved_before(6).Ex # solved_before(10).Ex
    /\ means_with_prev(solved_before(6)) # means_with_prev(solved_before(10))
    /\ means_with_prev(solved_before(10)).Ex # step_in.prev.Ex
    /\ step_log[10].out =
           pushed_from_prev(step_log[6].out, means_with_prev(solved_before(10)))
    /\ step_log[10].out #
           pushed_from_prev(step_log[6].out,
               [ f \in { "Ex", "Ey", "Ez", "Bx", "By" } |->
                     cell_means(solved_before(10)[f],
                                means_with_prev(solved_before(6))[f]) ])

-----------------------------------------------------------------------------
(* The fine lattice of plasma_make *)

\* The point x of a lattice of cells of the size h lies on the corner of a
\* cell: x / h + 1/2 is an integer.
OnCellCorner(x, h) == RAdd(RDiv(x, h), Half)[2] = 1

\* C25: the fine lattice plasma_make has built is strictly increasing,
\* symmetric about zero and has no point on a cell corner; for an even
\* fineness it has no point on the zero axis.
C25_FineLatticeOffCorners ==
    pm_pc = "made" =>
        LET g == virt_params.fine_grid
            n == ALen(virt_params.fine_grid)
        IN  /\ \A k \in 0 .. n - 2 : RLt(g[k], g[k + 1])
            /\ \A k \in 0 .. n - 1 : g[k] = RNeg(g[n - 1 - k])
            /\ \A k \in 0 .. n - 1 : ~OnCellCorner(g[k], pm_args.cell_size)
            /\ pm_args.fineness % 2 = 0 => \A k \in 0 .. n - 1 : g[k] # Zero

\* A lattice of an even fineness with more than one point in a cell, and of
\* a cell size other than 1.
C25_Witness ==
    /\ pm_pc = "made"
    /\ pm_args.fineness = 2
    /\ pm_args.cell_size = Half
    /\ ALen(virt_params.fine_grid) = (pm_args.steps \div 2) * 4
    /\ ALen(virt_params.fine_grid) >= 8
    /\ virt_params.fine_grid[ALen(virt_params.fine_grid) \div 2] = <<1, 8>>

\* A lattice of an odd fineness has a point on the zero axis.
OddFinenessOnAxis ==
    /\ pm_pc = "made"
    /\ pm_args.fineness = 3
    /\ \E k \in DOMAIN virt_params.fine_grid : virt_params.fine_grid[k] = Zero

-----------------------------------------------------------------------------
(* The stencils of the deposits and the edge of the grid *)

\* Configurations that differ in grid_steps, plasma_padding_steps and
\* plasma_fineness; GPUMonolith.__init__ asserts nothing on the last two.
StencilConfigs ==
    { Config(grid_steps, One, Half, 0, 3, plasma_padding_steps, 1, fineness) :
          grid_steps \in { 7, 9 }, plasma_padding_steps \in 0 .. 2,
          fineness \in 1 .. 2 }

\* init has constructed the GPUMonolith.
InitStencil ==
    /\ IdleSweep
    /\ IdleInit
    /\ IdleCall
    /\ IdleStep
    /\ IdlePlasma
    /\ IdlePush
    /\ \E config \in StencilConfigs :
          /\ ConfigAccepted(config)
          /\ gpu = GPUMonolith(config,
                     plasma_make(config.grid_steps - config.plasma_padding_steps * 2,
                                 config.grid_step_size,
                                 config.plasma_coarseness, config.plasma_fineness))
    /\ dep_pc = "constructed"
    /\ dep_c = NoTable
    /\ dep_out = NoTable
    /\ kern_threads = <<>>

\* gpu.initial_deposition(...) of init with an atomic add to a cell that is
\* not in the grids: the kernel writes out of the arrays' bounds, and what
\* follows is not defined.
InitialDepositionOutOfGrid ==
    /\ dep_pc = "constructed"
    /\ ~AllStencilsInGrid(gpu.grid_steps, gpu.grid_step_size, gpu.virt_params,
                          initial_plasma(gpu), gpu.virtplasma_smallness_factor)
    /\ dep_pc' = "undefined"
    /\ UNCHANGED <<gpu, dep_c, dep_out, kern_threads>>
    /\ UNCHANGED <<plasmaVars, pushVars, stepVars, sweepVars, initVars, callVars>>

\* Every macro-particle of the plasma c is within the reflection boundary on
\* both axes.
WithinBoundary(g, c) ==
    ~ \E i, j \in 0 .. g.Nc - 1 :
          \/ ~Within(RAdd(g.x_init[i][j], c.x_offt[i][j]), g.reflect_boundary)
          \/ ~Within(RAdd(g.y_init[i][j], c.y_offt[i][j]), g.reflect_boundary)

\* deposit(...) of a plasma at rest with one particle displaced, all
\* particles within the reflection boundary.
DepositWithinBoundary ==
    /\ dep_pc = "ready"
    /\ \E ki, kj \in 0 .. gpu.Nc - 1, dx, dy \in OffsetValues :
          LET c == Perturbed(gpu, ki, kj, dx, dy, <<Zero, Zero, Zero>>)
          IN  /\ WithinBoundary(gpu, c)
              /\ dep_c' = c
              /\ IF AllStencilsInGrid(gpu.grid_steps, gpu.grid_step_size,
                                      gpu.virt_params, c,
                                      gpu.virtplasma_smallness_factor)
                 THEN /\ dep_out' = deposit(gpu.ro_initial, gpu.grid_steps,
                                            gpu.grid_step_size, c, gpu.virt_params,
                                            gpu.virtplasma_smallness_factor)
                      /\ dep_pc' = "deposited"
                 ELSE /\ dep_pc' = "undefined"
                      /\ UNCHANGED dep_out
    /\ UNCHANGED <<gpu, kern_threads>>
    /\ UNCHANGED <<plasmaVars, pushVars, stepVars, sweepVars, initVars, callVars>>

NextStencil ==
    \/ InitialDeposition
    \/ InitialDepositionOutOfGrid
    \/ DepositWithinBoundary

SpecStencil == InitStencil /\ [][NextStencil]_vars

\* The 3 x 3 stencil around (i, j) has no cell in the rows and columns 0 and
\* grid_steps - 1.
StencilOffPerimeter(i, j, grid_steps) ==
    /\ 2 <= i /\ i <= grid_steps - 3
    /\ 2 <= j /\ j <= grid_steps - 3

AllStencilsOffPerimeter(g, c) ==
    \A pk \in 0 .. virtual_count(g.virt_params) - 1 :
        LET v == virtual_particle(g.grid_steps, g.grid_step_size, g.virt_params, c,
                                  g.virtplasma_smallness_factor, pk)
        IN  StencilOffPerimeter(v.w.i, v.w.j, g.grid_steps)

\* C26: for every configuration the assertions accept, the stencils of the
\* initial deposition, and those of every later deposit of a plasma whose
\* macro-particles are within the reflection boundary, are inside the grid
\* and off its rows and columns 0 and N-1.
C26_StencilsOffPerimeter ==
    /\ dep_pc # "constructed" =>
           /\ dep_pc # "undefined" \/ dep_c # NoTable
           /\ AllStencilsOffPerimeter(gpu, initial_plasma(gpu))
    /\ (dep_c # NoTable /\ WithinBoundary(gpu, dep_c)) =>
           /\ dep_pc = "deposited"
           /\ AllStencilsOffPerimeter(gpu, dep_c)

\* plasma_padding_steps of the configuration g was constructed with, for
\* plasma_coarseness = 1: the plasma has 2 * (steps // 2) - 1 macro-particles
\* a side, and steps = grid_steps - 2 * plasma_padding_steps is odd.
plasma_padding_of(g) == (g.grid_steps - 1) \div 2 - (g.Nc + 1) \div 2

\* With plasma_padding_steps = 2 the stencils of the initial deposition and
\* of the deposits within the boundary are off the perimeter.
PaddedStencilsOffPerimeter ==
    (plasma_padding_of(gpu) = 2 /\ dep_pc # "constructed") =>
        /\ dep_pc # "undefined"
        /\ AllStencilsOffPerimeter(gpu, initial_plasma(gpu))
        /\ dep_c # NoTable => AllStencilsOffPerimeter(gpu, dep_c)

\* The initial deposition has written out of the grid.
InitialOutOfGrid == dep_pc = "undefined" /\ dep_c = NoTable

\* The initial deposition has written to the perimeter.
InitialOnPerimeter ==
    /\ dep_pc = "ready"
    /\ ~AllStencilsOffPerimeter(gpu, initial_plasma(gpu))

-----------------------------------------------------------------------------
(* the macro-particles and the reflection boundary *)

\* C27: for every configuration init accepts, the macro-particles of the
\* state init returns and of every state step returns are within
\* [-reflect_boundary, reflect_boundary] on both axes, and so are the
\* positions the predictor move_estimate_wo_fields estimates.
C27_PositionsWithinBoundary ==
    /\ state # NoTable => WithinBoundary(gpu, state)
    /\ step_ret # NoTable => WithinBoundary(gpu, step_ret)
    /\ step_log # <<>> => WithinBoundary(gpu, step_log[1].out)

-----------------------------------------------------------------------------
(* mid_dct_transform: the cells read and the cells written *)

\* The cells <<array, field, row, column>> of the scratchpad bet and of the
\* second-transform input dct2_in that the iteration of the column i stores
\* to before its backward loop: bet[i, 0], bet[i, 2 .. N-1], dct2_in[N-1, i].
forward_cells(N, i) ==
    { <<"bet", f, i, c>> : f \in Fields, c \in { 0 } \cup 2 .. N - 1 }
    \cup { <<"dct2_in", f, N - 1, i>> : f \in Fields }

\* Those the whole iteration stores to: the backward loop stores to
\* dct2_in[j, i] and dct2_in[j, 2N-2-max(i, 1)] for the rows j = N-2 .. 0.
column_cells(N, i) ==
    forward_cells(N, i)
    \cup { <<"dct2_in", f, j, c>> : f \in Fields, j \in 0 .. N - 2, c \in { i, mirror_column(N, i) } }

\* The thread th has run the row statement, and the mirror statement, of
\* the field f for the row j of its iteration.
row_done(th, f, j) ==
    j > th.j \/ (j = th.j /\ (th.pc \in { "read", "mirror" } \/ field_number(f) < th.n))
mirror_done(th, f, j) ==
    j > th.j \/ (j = th.j /\ th.pc \in { "read", "mirror" } /\ field_number(f) < th.n)

\* The cells the thread th of the index t has stored to: those of the
\* iterations it has ended, and those of the iteration it is in.
written_by(N, by, t, th) ==
    UNION { column_cells(N, i) : i \in { c \in 0 .. N - 1 : c % by = t /\ c < th.i } }
    \cup (IF th.pc \in { "forward", "done" } THEN {}
          ELSE forward_cells(N, th.i)
               \cup { cl \in { <<"dct2_in", f, j, th.i>> : f \in Fields, j \in 0 .. N - 2 } :
                         row_done(th, cl[2], cl[3]) }
               \cup { cl \in { <<"dct2_in", f, j, mirror_column(N, th.i)>> :
                                  f \in Fields, j \in 0 .. N - 2 } :
                         mirror_done(th, cl[2], cl[3]) })

\* The cells the launch has stored to so far; GPUMonolith.__init__ makes bet
\* and dct2_in with numba.cuda.device_array and stores nothing to them.
written_so_far ==
    UNION { written_by(fs_solver.N, ALen(fs_threads), t, fs_threads[t]) :
               t \in DOMAIN fs_threads }

\* The cells the statement the thread th is at loads, but for those the
\* same statement has stored before: the forward loop loads bet[i, j] for
\* j = 1 .. N-2 and has stored bet[i, 0] and bet[i, 2 .. j] by then; the
\* backward loop loads dct2_in[j+1, i] and bet[i, j+1], then
\* dct2_in[j, max(i, 1)].
loads_next(N, th) ==
    IF th.pc = "forward"
    THEN { <<"bet", f, th.i, j>> :
              f \in Fields, j \in { k \in 1 .. N - 2 : k \notin { 0 } \cup 2 .. k } }
    ELSE IF th.pc = "row"
    THEN { <<"dct2_in", solve_fields[th.n], th.j + 1, th.i>>,
           <<"bet", solve_fields[th.n], th.i, th.j + 1>> }
    ELSE IF th.pc = "read"
    THEN { <<"dct2_in", solve_fields[th.n], th.j, Max(th.i, 1)>> }
    ELSE {}

\* The cells of the fields' second-transform inputs the second transform
\* loads: self._combined_dct2_in.ravel(), all of the N x (2N - 2) arrays.
loads_of_second_transform(N) ==
    { <<"dct2_in", f, r, c>> : f \in Fields, r \in 0 .. N - 1, c \in 0 .. 2 * N - 3 }

\* C28: in a mixed-field solve no statement of mid_dct_transform loads a
\* cell of bet or of dct2_in that nothing has stored to before, and the
\* second transform finds every cell of its input stored to.
C28_LoadsOnlyStoredCells ==
    /\ fs_pc = "sweep" =>
           \A t \in DOMAIN fs_threads :
               loads_next(fs_solver.N, fs_threads[t]) \subseteq written_so_far
    /\ Swept => loads_of_second_transform(fs_solver.N) \subseteq written_so_far

\* The cells of m.bet and m.dct2_in that differ from those of held.
changed_cells(m, held) ==
    UNION { { cl \in { <<a, f, r, c>> : r \in DOMAIN m[a][f], c \in DOMAIN m[a][f][0] } :
                 m[a][f][cl[3]][cl[4]] # held[a][f][cl[3]][cl[4]] } :
               a \in { "bet", "dct2_in" }, f \in Fields }

\* The cells the launch has changed are among those it has stored to.
OnlyStoredCellsChange ==
    fs_pc \in { "sweep", "synchronized" } =>
        changed_cells(fs_mem, fs_args.held) \subseteq written_so_far

\* What the backward loop loads of its own column has been stored to.
OwnColumnLoadsStored ==
    fs_pc = "sweep" =>
        \A t \in DOMAIN fs_threads :
            fs_threads[t].pc = "row" =>
                <<"dct2_in", solve_fields[fs_threads[t].n], fs_threads[t].j + 1,
                  fs_threads[t].i>> \in written_so_far

\* A thread is at the load of bet[i, 1], which nothing has stored to.
LoadsUnstoredBet ==
    /\ fs_pc = "sweep"
    /\ \E t \in DOMAIN fs_threads :
          /\ fs_threads[t].pc = "forward"
          /\ <<"bet", "Ex", fs_threads[t].i, 1>> \notin written_so_far

\* The second transform is about to load dct2_in[N-1, 2N-3], which nothing
\* has stored to.
LoadsUnstoredInput ==
    /\ Swept
    /\ <<"dct2_in", "Ex", fs_solver.N - 1, 2 * fs_solver.N - 3>> \notin written_so_far

-----------------------------------------------------------------------------
(* the nine weights of a stencil *)

\* The virtual particles of the plasma the last deposit was called with.
deposited_virtual ==
    { virtual_particle(gpu.grid_steps, gpu.grid_step_size, gpu.virt_params, dep_c,
                       gpu.virtplasma_smallness_factor, pk) :
          pk \in 0 .. virtual_count(gpu.virt_params) - 1 }

\* x_h = x / grid_step_size + .5
x_h_of(x) == RAdd(RDiv(x, gpu.grid_step_size), Half)

\* The nine weights of the stencil w.
nine_weights(w) == [k \in 1 .. 9 |-> Stencil(w)[k][3]]

\* -1/2 <= a < 1/2
InHalfOpenCell(a) == RLe(RNeg(Half), a) /\ RLt(a, Half)

\* C29: for every particle position weights is called with, the nine weights
\* it returns are non-negative and add up to exactly 1, and the offsets
\* x_loc, y_loc from the cell center are in [-1/2, 1/2).
C29_WeightsPartitionUnity ==
    dep_pc = "deposited" =>
        \A v \in deposited_virtual :
            /\ \A k \in 1 .. 9 : RGe(nine_weights(v.w)[k], Zero)
            /\ SumLR(nine_weights(v.w)) = One
            /\ InHalfOpenCell(cell_offset(x_h_of(v.x)))
            /\ InHalfOpenCell(cell_offset(x_h_of(v.y)))

\* A deposit with a virtual particle on the lower edge of its cell on one
\* axis (x_loc = -1/2, whose weight towards the next cell is zero) and off
\* the center on the other, and one at the center of its cell.
C29_Witness ==
    /\ dep_pc = "deposited"
    /\ \E v \in deposited_virtual :
          /\ cell_offset(x_h_of(v.x)) = RNeg(Half)
          /\ v.w.wP0 = Zero
          /\ cell_offset(x_h_of(v.y)) \notin { Zero, RNeg(Half) }
          /\ SumLR(nine_weights(v.w)) = One
    /\ \E v \in deposited_virtual :
          /\ cell_offset(x_h_of(v.x)) = Zero /\ cell_offset(x_h_of(v.y)) = Zero
          /\ v.w.w00 = <<9, 16>>

-----------------------------------------------------------------------------
(* The grid-stride loops of the three kernels as the threads of a launch run them *)

MaxThreads == 4

\* cfg = (blocks, threads per block): what a kernel is launched with, of
\* MaxThreads threads at most.
LaunchConfigs ==
    { cfg \in (1 .. MaxThreads) \X (1 .. MaxThreads) : cfg[1] * cfg[2] <= MaxThreads }

\* numba.cuda.grid(1) taken for the index within the block, threadIdx.x.
cuda_grid_in_block(blockIdx, threadIdx, blockDim) == threadIdx

\* numba.cuda.grid(1): the index of the thread in the whole launch.
cuda_grid(blockIdx, threadIdx, blockDim) == threadIdx + blockIdx * blockDim

\* The threads <<blockIdx.x, threadIdx.x>> of a launch.
launched_threads(cfg) ==
    { <<b, x>> : b \in 0 .. cfg[1] - 1, x \in 0 .. cfg[2] - 1 }

\* A thread at the head of its loop for k, and the indices it has run the
\* body of the loop for, in order.
loop_thread(k, handled) == [ at |-> "loop", pk |-> k, handled |-> handled ]

\* kernel[cfg](...): every thread starts range(index, size, stride) at
\* index = numba.cuda.grid(1).
launch(cfg) ==
    [th \in launched_threads(cfg) |-> loop_thread(cuda_grid(th[1], th[2], cfg[2]), <<>>)]

\* The thread after the body of the loop for th.pk: at the head of the loop
\* for th.pk + stride.
iterated(th, by) == loop_thread(th.pk + by, Append(th.handled, th.pk))

\* ms.size or A_weights.size: the end of the range of the kernel in flight,
\* or of the last one that has ended.
loop_size ==
    IF dep_pc \in {"running", "deposited"}
    THEN virtual_count(gpu.virt_params)
    ELSE gpu.Nc * gpu.Nc

\* Element k of a.ravel(), a an n x n array.
raveled(a, n, k) == a[k \div n][k % n]

\* a.ravel()[k] = v
ravel_set(a, n, k, v) == [a EXCEPT ![k \div n][k % n] = v]

\* The plasmas the kernels are launched on: the configuration, the offsets
\* of the particle (0, 0) in grid steps, its momentum in units of its mass
\* and the uniform field Ex.  A single particle, moving, with one virtual
\* particle; nine particles with nine virtual particles.
LoopInputs ==
    { <<Config(7, One, Half, 0, 3, 2, 1, 1), <<1, 4>>, <<-1, 4>>, <<One, One, One>>, <<1, 4>>>>,
      <<Config(9, One, Half, 0, 3, 2, 1, 1), <<1, 4>>, <<-1, 4>>, <<Zero, Zero, Zero>>, Zero>> }

InitLoop ==
    /\ IdleSweep
    /\ IdleInit
    /\ IdleCall
    /\ IdleStep
    /\ IdlePlasma
    /\ dep_pc = "ready" /\ dep_c = NoTable /\ dep_out = NoTable
    /\ kern_threads = <<>>
    /\ \E in \in LoopInputs :
          /\ gpu = initialized(in[1])
          /\ push_in = [ c |-> Perturbed(gpu, 0, 0, in[2], in[3], in[4]),
                         F |-> uniform_fields(gpu.grid_steps, in[5]) ]
    /\ push_pc = "args"
    /\ push_est = NoTable
    /\ push_out = NoTable

\* move_estimate_wo_fields up to the launch: the two arrays zeroed,
\* move_estimate_wo_fields_kernel[cfg](...).
EstimateLaunch ==
    /\ push_pc = "args"
    /\ \E cfg \in LaunchConfigs : kern_threads' = launch(cfg)
    /\ push_est' = [ x_offt |-> zeros(gpu.Nc, gpu.Nc), y_offt |-> zeros(gpu.Nc, gpu.Nc) ]
    /\ push_pc' = "estimating"
    /\ UNCHANGED <<gpu, dep_pc, dep_c, dep_out, push_in, push_out, plasmaVars, stepVars, sweepVars, initVars, callVars>>

\* A thread runs the body of move_estimate_wo_fields_kernel's loop for k.
EstimateIterate(t) ==
    /\ push_pc = "estimating"
    /\ kern_threads[t].at = "loop"
    /\ kern_threads[t].pk < loop_size
    /\ LET k == kern_threads[t].pk
           n == gpu.Nc
           new == move_estimate_wo_fields_kernel(
                      gpu.xi_step_size, gpu.reflect_boundary, raveled(gpu.m, n, k),
                      raveled(gpu.x_init, n, k), raveled(gpu.y_init, n, k),
                      raveled(push_in.c.x_offt, n, k), raveled(push_in.c.y_offt, n, k),
                      raveled(push_in.c.px, n, k), raveled(push_in.c.py, n, k),
                      raveled(push_in.c.pz, n, k))
       IN  push_est' = [ x_offt |-> ravel_set(push_est.x_offt, n, k, new[1]),
                         y_offt |-> ravel_set(push_est.y_offt, n, k, new[2]) ]
    /\ kern_threads' = [kern_threads EXCEPT ![t] = iterated(@, stride)]
    /\ UNCHANGED <<gpu, dep_pc, dep_c, dep_out, push_pc, push_in, push_out, plasmaVars, stepVars, sweepVars, initVars, callVars>>

\* A thread leaves its loop: range(index, size, stride) is used up.
LoopExit(t) ==
    /\ \/ push_pc \in {"estimating", "pushing"}
       \/ dep_pc = "running"
    /\ kern_threads[t].at = "loop"
    /\ kern_threads[t].pk >= loop_size
    /\ kern_threads' = [kern_threads EXCEPT ![t].at = "done"]
    /\ UNCHANGED <<gpu, dep_pc, dep_c, dep_out, pushVars, plasmaVars, stepVars, sweepVars, initVars, callVars>>

\* Every thread of the launch has left its loop.
LoopsEnded ==
    /\ kern_threads # <<>>
    /\ ~ \E t \in DOMAIN kern_threads : kern_threads[t].at # "done"

\* numba.cuda.synchronize(); return x_offt, y_offt
EstimateReturn ==
    /\ push_pc = "estimating"
    /\ LoopsEnded
    /\ push_pc' = "estimated"
    /\ UNCHANGED <<gpu, dep_pc, dep_c, dep_out, kern_threads, push_in, push_est, push_out, plasmaVars, stepVars, sweepVars, initVars, callVars>>

\* move_smart up to the launch: the five arrays zeroed,
\* move_smart_kernel[cfg](...).
SmartLaunch ==
    /\ push_pc = "estimated"
    /\ HalfstepsInGrid(gpu, push_in.c, push_est)
    /\ \E cfg \in LaunchConfigs : kern_threads' = launch(cfg)
    /\ push_out' = [ x_offt |-> zeros(gpu.Nc, gpu.Nc), y_offt |-> zeros(gpu.Nc, gpu.Nc),
                     px |-> zeros(gpu.Nc, gpu.Nc), py |-> zeros(gpu.Nc, gpu.Nc),
                     pz |-> zeros(gpu.Nc, gpu.Nc) ]
    /\ push_pc' = "pushing"
    /\ UNCHANGED <<gpu, dep_pc, dep_c, dep_out, push_in, push_est, plasmaVars, stepVars, sweepVars, initVars, callVars>>

\* A thread runs the body of move_smart_kernel's loop for k.
SmartIterate(t) ==
    /\ push_pc = "pushing"
    /\ kern_threads[t].at = "loop"
    /\ kern_threads[t].pk < loop_size
    /\ LET k == kern_threads[t].pk
           n == gpu.Nc
           new == move_smart_kernel(
                      gpu.xi_step_size, gpu.reflect_boundary,
                      gpu.grid_step_size, gpu.grid_steps,
                      raveled(gpu.m, n, k), raveled(gpu.q, n, k),
                      raveled(gpu.x_init, n, k), raveled(gpu.y_init, n, k),
                      raveled(push_in.c.x_offt, n, k), raveled(push_in.c.y_offt, n, k),
                      raveled(push_est.x_offt, n, k), raveled(push_est.y_offt, n, k),
                      raveled(push_in.c.px, n, k), raveled(push_in.c.py, n, k),
                      raveled(push_in.c.pz, n, k), push_in.F)
       IN  push_out' = [ x_offt |-> ravel_set(push_out.x_offt, n, k, new.x_offt),
                         y_offt |-> ravel_set(push_out.y_offt, n, k, new.y_offt),
                         px |-> ravel_set(push_out.px, n, k, new.px),
                         py |-> ravel_set(push_out.py, n, k, new.py),
                         pz |-> ravel_set(push_out.pz, n, k, new.pz) ]
    /\ kern_threads' = [kern_threads EXCEPT ![t] = iterated(@, stride)]
    /\ UNCHANGED <<gpu, dep_pc, dep_c, dep_out, push_pc, push_in, push_est, plasmaVars, stepVars, sweepVars, initVars, callVars>>

\* numba.cuda.synchronize(); return the five arrays.
SmartReturn ==
    /\ push_pc = "pushing"
    /\ LoopsEnded
    /\ push_pc' = "pushed"
    /\ UNCHANGED <<gpu, dep_pc, dep_c, dep_out, kern_threads, push_in, push_est, push_out, plasmaVars, stepVars, sweepVars, initVars, callVars>>

\* The launches of deposit_kernel are of MaxDepositThreads threads at most:
\* each iteration of its loop is 36 steps.
MaxDepositThreads == 2
DepositLaunchConfigs == { cfg \in LaunchConfigs : cfg[1] * cfg[2] <= MaxDepositThreads }

\* deposit() of the pushed plasma up to the launch: the four grids zeroed,
\* deposit_kernel[cfg](...).
DepositLaunch ==
    /\ push_pc = "pushed"
    /\ dep_pc = "ready"
    /\ dep_c' = CoarsePlasma(push_out.x_offt, push_out.y_offt, gpu.m, gpu.q,
                             push_out.px, push_out.py, push_out.pz)
    /\ AllStencilsInGrid(gpu.grid_steps, gpu.grid_step_size, gpu.virt_params,
                         dep_c', gpu.virtplasma_smallness_factor)
    /\ \E cfg \in DepositLaunchConfigs : kern_threads' = launch(cfg)
    /\ dep_out' = zero_grids(gpu.grid_steps)
    /\ dep_pc' = "running"
    /\ UNCHANGED <<gpu, pushVars, plasmaVars, stepVars, sweepVars, initVars, callVars>>

\* The thread th inside the body of deposit_kernel's loop for th.pk, the
\* virtual particle v: it has made n of the 36 atomic adds.
adding(th, n, v) ==
    [ at |-> "add", pk |-> th.pk, handled |-> th.handled, n |-> n, v |-> v ]

\* The thread after its atomic add number th.n + 1: at the next add, or,
\* the body run, at the head of the loop for the next index.
added(th, by) ==
    IF th.n + 1 = 9 * ALen(out_arrays) THEN iterated(th, by)
    ELSE adding(th, th.n + 1, th.v)

\* A thread enters the body of deposit_kernel's loop for pk: the lines up
\* to the call of weights, which read the kernel's arguments only.
DepositIterate(t) ==
    /\ dep_pc = "running"
    /\ kern_threads[t].at = "loop"
    /\ kern_threads[t].pk < loop_size
    /\ kern_threads' = [kern_threads EXCEPT ![t] =
           adding(@, 0, virtual_particle(gpu.grid_steps, gpu.grid_step_size,
                                         gpu.virt_params, dep_c,
                                         gpu.virtplasma_smallness_factor, @.pk))]
    /\ UNCHANGED <<gpu, dep_pc, dep_c, dep_out, pushVars, plasmaVars, stepVars, sweepVars, initVars, callVars>>

\* A thread makes the next numba.cuda.atomic.add of the body.
DepositAtomicAdd(t) ==
    /\ dep_pc = "running"
    /\ kern_threads[t].at = "add"
    /\ dep_out' = [dep_out EXCEPT ![next_array(kern_threads[t])] =
           deposit9_add(@, kern_threads[t].v.w.i, kern_threads[t].v.w.j,
                        next_value(kern_threads[t]), next_cell(kern_threads[t]))]
    /\ kern_threads' = [kern_threads EXCEPT ![t] = added(@, stride)]
    /\ UNCHANGED <<gpu, dep_pc, dep_c, pushVars, plasmaVars, stepVars, sweepVars, initVars, callVars>>

\* ro += ro_initial, synchronize, return.
DepositReturn ==
    /\ dep_pc = "running"
    /\ LoopsEnded
    /\ dep_out' = add_ro_initial(dep_out, gpu.ro_initial)
    /\ dep_pc' = "deposited"
    /\ UNCHANGED <<gpu, dep_c, kern_threads, pushVars, plasmaVars, stepVars, sweepVars, initVars, callVars>>

NextLoop ==
    \/ EstimateLaunch
    \/ \E t \in DOMAIN kern_threads : EstimateIterate(t)
    \/ \E t \in DOMAIN kern_threads : LoopExit(t)
    \/ EstimateReturn
    \/ SmartLaunch
    \/ \E t \in DOMAIN kern_threads : SmartIterate(t)
    \/ SmartReturn
    \/ DepositLaunch
    \/ \E t \in DOMAIN kern_threads : DepositIterate(t)
    \/ \E t \in DOMAIN kern_threads : DepositAtomicAdd(t)
    \/ DepositReturn

SpecLoop == InitLoop /\ [][NextLoop]_vars

\* The runs of the body of the loop for k: the thread and the place in its
\* order.
runs_for(k) ==
    { tn \in UNION { {t} \X (1 .. Len(kern_threads[t].handled)) : t \in DOMAIN kern_threads } :
          kern_threads[tn[1]].handled[tn[2]] = k }

\* The indices some thread has run the body of the loop for.
handled_indices ==
    UNION { { kern_threads[t].handled[n] : n \in 1 .. Len(kern_threads[t].handled) } :
            t \in DOMAIN kern_threads }

\* C30: whatever the launch configuration, no element index is ever handled
\* twice, by one thread or by two, none outside 0 .. size - 1 is handled, and
\* when the threads of the launch have all left their loops every index
\* 0 .. size - 1 has been handled exactly once, by exactly one thread.
C30_EveryIndexOnce ==
    kern_threads # <<>> =>
        /\ handled_indices \subseteq 0 .. loop_size - 1
        /\ \A k \in 0 .. loop_size - 1 : Cardinality(runs_for(k)) <= 1
        /\ LoopsEnded => \A k \in 0 .. loop_size - 1 : Cardinality(runs_for(k)) = 1

\* A move_smart_kernel launch of two blocks of two threads over the nine
\* particles has ended: the thread 1 of the block 1 has handled the indices
\* 3 and 7, the thread 0 of the block 0 the indices 0, 4 and 8.
C30_Witness ==
    /\ LoopsEnded
    /\ push_pc = "pushed" /\ dep_pc = "ready"
    /\ stride = 4
    /\ loop_size = 9
    /\ DOMAIN kern_threads = launched_threads(<<2, 2>>)
    /\ kern_threads[<<1, 1>>].handled = <<3, 7>>
    /\ kern_threads[<<0, 0>>].handled = <<0, 4, 8>>

\* More threads than elements: the threads past the first run no iteration.
MoreThreadsThanElements ==
    /\ LoopsEnded
    /\ dep_pc = "ready"
    /\ stride = 4
    /\ loop_size = 1
    /\ DOMAIN kern_threads = launched_threads(<<2, 2>>)
    /\ kern_threads[<<1, 0>>].handled = <<>>

\* What the threads of a launch have written when they have all left their
\* loops is what the kernel over all the particles writes.
LoopsWriteWholeArrays ==
    /\ push_pc = "estimated" =>
          push_est = move_estimate_wo_fields(
                         gpu.xi_step_size, gpu.reflect_boundary, gpu.m,
                         gpu.x_init, gpu.y_init, push_in.c.x_offt, push_in.c.y_offt,
                         push_in.c.px, push_in.c.py, push_in.c.pz)
    /\ (push_pc = "pushed" /\ dep_pc = "ready") =>
          push_out = move_smart(
                         gpu.xi_step_size, gpu.reflect_boundary,
                         gpu.grid_step_size, gpu.grid_steps, gpu.m, gpu.q,
                         gpu.x_init, gpu.y_init, push_in.c.x_offt, push_in.c.y_offt,
                         push_est.x_offt, push_est.y_offt,
                         push_in.c.px, push_in.c.py, push_in.c.pz, push_in.F)

=============================================================================
